---- MODULE Spec2Model ----
(***************************************************************************)
(* A model of the video assembly engine of SSMM (video_processing.py):     *)
(* the worker slot start_video_creation / run_video_creation driving the   *)
(* pipeline of _run_logic, the process runner _run_subprocess, and         *)
(* cancel(), which the user interface invokes while the worker runs.       *)
(*                                                                         *)
(* cancel() is modelled as running concurrently with the worker's steps,   *)
(* as its own locking (process_lock, the registry snapshot) presumes.      *)
(* waitForStarted / waitForFinished are modelled by their outcomes; the    *)
(* values of the timeouts play no part.  A child process ends when it      *)
(* exits by itself, when the code calls kill() on it, or when its QProcess *)
(* object is destroyed after the last reference to it is gone.             *)
(***************************************************************************)
EXTENDS Integers, Sequences, FiniteSets, TLC

\* ---------------------------------------------------------------- bounds
MaxSlides == 2
MaxRuns == 1

\* ------------------------------------------------------ config.py tables
QUALITY == "Quality (CQP/CRF)"
VBR == "Bitrate (VBR)"
CBR == "Bitrate (CBR)"
ENCODING_MODES == {QUALITY, VBR, CBR}
ONE_PASS == "1-Pass"
TWO_PASS == "2-Pass"
ENCODING_PASSES == {ONE_PASS, TWO_PASS}

Codecs == {"MPEG-4 Part 2", "H.264/MPEG-4 AVC", "H.265/HEVC", "AV1"}
Hardware == {"None", "NVIDIA", "Intel", "videotoolbox", "AMD"}

\* config.CODEC_MAP: codec x vendor -> encoder id; "" where the table has no entry
\* (dict.get(hw, '')).
CODEC_MAP(codec, hw) ==
    CASE codec = "H.264/MPEG-4 AVC" /\ hw = "NVIDIA" -> "h264_nvenc"
      [] codec = "H.264/MPEG-4 AVC" /\ hw = "Intel" -> "h264_qsv"
      [] codec = "H.264/MPEG-4 AVC" /\ hw = "videotoolbox" -> "h264_videotoolbox"
      [] codec = "H.264/MPEG-4 AVC" /\ hw = "AMD" -> "h264_amf"
      [] codec = "H.265/HEVC" /\ hw = "NVIDIA" -> "hevc_nvenc"
      [] codec = "H.265/HEVC" /\ hw = "Intel" -> "hevc_qsv"
      [] codec = "H.265/HEVC" /\ hw = "videotoolbox" -> "hevc_videotoolbox"
      [] codec = "H.265/HEVC" /\ hw = "AMD" -> "hevc_amf"
      [] codec = "AV1" /\ hw = "NVIDIA" -> "av1_nvenc"
      [] codec = "AV1" /\ hw = "Intel" -> "av1_qsv"
      [] codec = "AV1" /\ hw = "AMD" -> "av1_amf"
      [] OTHER -> ""

SOFTWARE_CODEC_MAP(codec) ==
    CASE codec = "MPEG-4 Part 2" -> "mpeg4"
      [] codec = "H.264/MPEG-4 AVC" -> "libx264"
      [] codec = "H.265/HEVC" -> "libx265"
      [] codec = "AV1" -> "libaom-av1"
      [] OTHER -> "libx264"

\* 'videotoolbox' in codec, over the encoder ids the tables can yield.
ContainsVideotoolbox(enc) == enc \in {"h264_videotoolbox", "hevc_videotoolbox"}

\* _resolve_codec_option(codec, hw); hw = "None" stands for Python's None.
ResolveCodecOption(codec, hw) ==
    IF hw # "None" THEN CODEC_MAP(codec, hw) ELSE SOFTWARE_CODEC_MAP(codec)

\* _execute_encoding: is_2pass, from the parameters and the resolved encoder id.
Is2Pass(params) ==
    LET codec == ResolveCodecOption(params.codec, params.hardware_encoding)
        is_2pass_supported == ~ContainsVideotoolbox(codec)
    IN  /\ params.encoding_pass = TWO_PASS
        /\ params.encoding_mode # QUALITY
        /\ is_2pass_supported

\* ------------------------------------------------------------ the project
SlideKinds == {"Unassigned", "Silent", "Audio", "Video"}
NormalizeModes == {"off", "1-Pass (Faster)", "2-Pass (Recommended)"}

\* Slides a project of the main specification is drawn from: kind of material,
\* duration (s), interval_to_next (s), transition_to_next, chapter_title set or not.
SlideSamples ==
    { [kind |-> "Silent", duration |-> 12, interval_to_next |-> 0,
       transition_to_next |-> "None", chapter_title |-> FALSE],
      [kind |-> "Audio", duration |-> 15, interval_to_next |-> 2,
       transition_to_next |-> "None", chapter_title |-> TRUE],
      [kind |-> "Video", duration |-> 4, interval_to_next |-> 2,
       transition_to_next |-> "Fade", chapter_title |-> TRUE],
      [kind |-> "Unassigned", duration |-> 12, interval_to_next |-> 0,
       transition_to_next |-> "Fade", chapter_title |-> FALSE] }

ParamSamples ==
    { [codec |-> "H.264/MPEG-4 AVC", hardware_encoding |-> "None",
       encoding_mode |-> QUALITY, encoding_pass |-> ONE_PASS,
       normalize |-> "off", export_youtube_chapters |-> FALSE],
      [codec |-> "H.264/MPEG-4 AVC", hardware_encoding |-> "None",
       encoding_mode |-> VBR, encoding_pass |-> TWO_PASS,
       normalize |-> "2-Pass (Recommended)", export_youtube_chapters |-> TRUE],
      [codec |-> "H.265/HEVC", hardware_encoding |-> "videotoolbox",
       encoding_mode |-> CBR, encoding_pass |-> TWO_PASS,
       normalize |-> "1-Pass (Faster)", export_youtube_chapters |-> TRUE] }

SeqsUpTo(S, n) == UNION { [1..k -> S] : k \in 1..n }

VARIABLES
    model,            \* the ProjectModel snapshot: [slides, parameters]
    uiState,          \* AppState of the main window: VALIDATED, PROCESSING, CANCELLING
    startPending,     \* _start_video_creation_signal queued for the worker
    finishedPending,  \* video_finished queued for the main window
    pc,               \* the worker's position in start_video_creation and below
    idx,              \* loop index of the slide / transition / page loops (1-based)
    rpc,              \* position inside _run_subprocess ("none" outside of it)
    outcome,          \* how the current _run_subprocess call ends
    finishedNormally, \* finished_normally of the current call
    exitOK,           \* exit_code = 0 and NormalExit of the current child
    carried,          \* what the call's error or return value carries
    builder,          \* an FFmpegCommandBuilder: its five fields
    cmd,              \* what the last build() of that builder returned
    pinp,             \* a slide's overlay settings and the output resolution
    geometry,         \* what calculate_pinp_geometry returned for pinp
    overlayFilter,    \* the scale / overlay filters of _overlay_video_on_image
    slideIn,          \* a slide handed to SlideProcessorFactory.get_processor
    processor,        \* the processor get_processor chose for it
    segment,          \* the durations in the command that processor built
    isCanceled,       \* VideoProcessor._is_canceled
    activeProcesses,  \* VideoProcessor.active_processes
    running,          \* QProcess objects whose state() is not NotRunning
    procSeq,          \* number of QProcess objects created so far
    curProc,          \* the QProcess of the current / last _run_subprocess call
    cpc,              \* position inside cancel()
    procsToKill,      \* cancel()'s procs_to_kill
    finalPath,        \* what is at <output_folder>/<filename>.mp4
    finalAtStart,     \* what was there when the current run started
    tempPath,         \* what is at <output_folder>/<filename>.tmp.mp4
    sidecar,          \* whether the YouTube chapter file has been written
    currentStep,      \* _current_step
    totalSteps,       \* _total_steps
    progress,         \* the values progress_updated emitted in this run
    concatList,       \* the entries of concat_list.txt as last written
    audioDuration,    \* what _get_media_duration returned to _process_slide
    warnings,         \* the recovered failures written to the log: << site, reason >>
    loudnormFilter,   \* the loudnorm filter chosen by _finalize_video
    exc,              \* the exception propagating to run_video_creation
    errAt,            \* the call site that raised it
    result,           \* what run_video_creation returned
    emits,            \* number of video_finished emissions
    runs,             \* number of start_video_creation slot invocations
    steps,            \* the pipeline steps started by this run, in order
    flagAtStart,      \* for each started step, _is_canceled when it started
    segOK,            \* slides whose segment encode completed with success
    transOK,          \* slides whose interval clip completed with success
    completed,        \* {"concat","normalize","embed","move"} completed with success
    cancelDuringRun,  \* cancel() was entered while this run was executing
    cancelSaw,        \* the children running when cancel() was entered
    vpc,              \* position of ValidationWorker.run
    validatorCanceled,  \* ProjectValidator._is_canceled
    validationSignal, \* the terminal signal of the worker queued for the main thread
    validations       \* number of validations started

vars == << model, builder, cmd, concatList, audioDuration, warnings, pinp, geometry, overlayFilter, slideIn, processor, segment,
           uiState, startPending, finishedPending, pc, idx, rpc, outcome,
           finishedNormally, exitOK, carried, isCanceled, activeProcesses, running, procSeq,
           curProc, cpc, procsToKill, finalPath, finalAtStart, tempPath, sidecar, currentStep,
           progress, totalSteps, loudnormFilter, exc, errAt, result, emits, runs, steps,
           flagAtStart, segOK, transOK, completed, cancelDuringRun, cancelSaw,
           vpc, validatorCanceled, validationSignal, validations >>

validationVars == << vpc, validatorCanceled, validationSignal, validations >>
geometryVars == << pinp, geometry, overlayFilter >>
dispatchVars == << slideIn, processor, segment >>
\* what no step of a run assigns once the run has started
staticVars == << model, builder, cmd, geometryVars, dispatchVars, finalAtStart,
                validationVars >>
projVars == << staticVars, concatList, audioDuration, warnings >>
uiVars == << uiState, startPending, finishedPending >>
runnerVars == << rpc, outcome, finishedNormally, exitOK, carried, procSeq, curProc >>
cancelVars == << cpc, procsToKill, cancelDuringRun, cancelSaw >>
fsVars == << finalPath, tempPath, sidecar >>
progressVars == << currentStep, totalSteps, progress >>
histVars == << steps, flagAtStart, segOK, transOK, completed >>

NSlides == Len(model.slides)
params == model.parameters

NoResult == [kind |-> "none", message |-> ""]

\* ----------------------------------------------- YouTube chapter sidecar
RECURSIVE StartTime(_, _)
\* current_time when slide i is reached: every earlier slide adds its duration and,
\* not being the last one, its interval_to_next.
StartTime(slides, i) ==
    IF i <= 1 THEN 0
    ELSE StartTime(slides, i - 1) + slides[i - 1].duration + slides[i - 1].interval_to_next

\* current_time after the loop: the last slide adds its duration only.
TotalTime(slides) ==
    IF Len(slides) = 0 THEN 0
    ELSE StartTime(slides, Len(slides)) + slides[Len(slides)].duration

\* The chapters list: the start times of the slides that carry a chapter_title.
RECURSIVE ChaptersFrom(_, _)
ChaptersFrom(slides, i) ==
    IF i > Len(slides) THEN << >>
    ELSE (IF slides[i].chapter_title THEN << StartTime(slides, i) >> ELSE << >>)
         \o ChaptersFrom(slides, i + 1)

Chapters(slides) == ChaptersFrom(slides, 1)

\* _generate_youtube_chapter_file, line 1160: the guard in front of the write.
ChapterFileAllowed(slides) ==
    LET chapters == Chapters(slides)
    IN  ~(chapters = << >> \/ Len(chapters) < 3 \/ chapters[1] # 0)

\* Length of chapter k as _validate_youtube_chapters computes it.
ChapterDuration(slides, k) ==
    LET chapters == Chapters(slides)
    IN  (IF k + 1 <= Len(chapters) THEN chapters[k + 1] ELSE TotalTime(slides)) - chapters[k]

\* ------------------------------------------------- FFmpegCommandBuilder
\* FFmpegCommandBuilder.__init__; "" stands for None.
NewBuilder ==
    [inputs |-> << >>, filter_complex |-> "", output_path |-> "",
     output_options |-> << >>, global_options |-> << "-y", "-hide_banner" >>]

\* ------------------------------------------------- picture-in-picture
\* calculate_pinp_geometry returning None.
NoGeometry == [valid |-> FALSE, x |-> 0, y |-> 0, width |-> 0, height |-> 0]

\* No overlay filter chain has been built.
NoOverlay ==
    [built |-> FALSE, width |-> 0, height |-> 0, x |-> "", y |-> "",
     processing_filters |-> << >>, color_filters |-> << >>, shape_filters |-> << >>]

\* A Slide as the dataclass constructs it (no tech_info, "" stands for a missing
\* key) under the default resolution of ProjectParameters.
DefaultPinp ==
    [is_video |-> FALSE, width |-> 0, height |-> 0, dar |-> "", rotate |-> "",
     video_scale |-> 50, video_position |-> "Center", video_effects |-> {},
     output_width |-> 1920, output_height |-> 1080]

InitPinp == pinp = DefaultPinp /\ geometry = NoGeometry /\ overlayFilter = NoOverlay

\* ------------------------------------------------- slide processors
\* No command has been built; -1 stands for an option that is not there.
NoSegment == [built |-> FALSE, bed |-> -1, limit |-> -1, loop |-> -1]

\* A Slide as the dataclass constructs it ("" stands for None); probed is what
\* ffprobe reports for its material.
DefaultSlide == [filename |-> "", is_video |-> FALSE, duration |-> 0, probed |-> 0]

InitDispatch == slideIn = DefaultSlide /\ processor = "none" /\ segment = NoSegment

\* ------------------------------------------------------------------ Init
InitPipeline ==
    /\ builder = NewBuilder /\ cmd = << >>
    /\ uiState = "VALIDATED" /\ startPending = FALSE /\ finishedPending = FALSE
    /\ pc = "idle" /\ idx = 0
    /\ rpc = "none" /\ outcome = "none" /\ finishedNormally = FALSE /\ exitOK = FALSE
    /\ carried = "none"
    /\ isCanceled = FALSE /\ activeProcesses = {} /\ running = {}
    /\ procSeq = 0 /\ curProc = 0
    /\ cpc = "idle" /\ procsToKill = {}
    /\ tempPath = "absent" /\ sidecar = "absent"
    /\ currentStep = 0 /\ totalSteps = 1 /\ progress = << >>
    /\ concatList = << >> /\ audioDuration = "none" /\ warnings = {}
    /\ loudnormFilter = "none"
    /\ exc = "none" /\ errAt = "none" /\ result = NoResult
    /\ emits = 0 /\ runs = 0
    /\ steps = << >> /\ flagAtStart = << >>
    /\ segOK = {} /\ transOK = {} /\ completed = {}
    /\ cancelDuringRun = FALSE /\ cancelSaw = {}
    /\ finalAtStart = "none"
    /\ vpc = "idle" /\ validatorCanceled = FALSE /\ validationSignal = "none"
    /\ validations = 0

InitEngine ==
    /\ InitPinp /\ InitDispatch
    /\ InitPipeline

Init ==
    /\ model \in { [slides |-> s, parameters |-> p] :
                     s \in SeqsUpTo(SlideSamples, MaxSlides), p \in ParamSamples }
    /\ finalPath \in {"absent", "old"}
    /\ InitEngine

\* ------------------------------------------------------- the main window
\* MainWindow.run_create_video: VALIDATED -> PROCESSING, the start signal is queued.
RunCreateVideoUpTo(limit) ==
    /\ uiState = "VALIDATED"
    /\ runs < limit
    /\ ~startPending
    /\ uiState' = "PROCESSING"
    /\ startPending' = TRUE
    /\ UNCHANGED << projVars, finishedPending, pc, idx, runnerVars, isCanceled,
                    activeProcesses, running, cancelVars, fsVars, progressVars,
                    loudnormFilter, exc, errAt, result, emits, runs, histVars >>

RunCreateVideo == RunCreateVideoUpTo(MaxRuns)

\* MainWindow.cancel_video_creation: the Cancel button, enabled in PROCESSING.
CancelVideoCreation ==
    /\ uiState = "PROCESSING"
    /\ cpc = "idle"
    /\ uiState' = "CANCELLING"
    /\ cpc' = "requested"
    /\ UNCHANGED << projVars, startPending, finishedPending, pc, idx, runnerVars,
                    isCanceled, activeProcesses, running, procsToKill, cancelDuringRun,
                    cancelSaw, fsVars, progressVars, loudnormFilter, exc, errAt,
                    result, emits, runs, histVars >>

\* MainWindow._on_processing_finished: the queued video_finished arrives.
OnProcessingFinished ==
    /\ finishedPending
    /\ finishedPending' = FALSE
    /\ uiState' = "VALIDATED"
    /\ UNCHANGED << projVars, startPending, pc, idx, runnerVars, isCanceled,
                    activeProcesses, running, cancelVars, fsVars, progressVars,
                    loudnormFilter, exc, errAt, result, emits, runs, histVars >>

\* --------------------------------------------------------------- cancel()
\* The positions of the worker at which run_video_creation is executing past its
\* reset of the flag and has not yet returned.
RunExecuting == pc \notin {"idle", "rvc_reset", "slot_return"}

\* cancel(), line 43.
CancelSetFlag ==
    /\ cpc = "requested"
    /\ isCanceled' = TRUE
    /\ cpc' = "snapshot"
    /\ cancelDuringRun' = (cancelDuringRun \/ RunExecuting)
    /\ cancelSaw' = running
    /\ UNCHANGED << projVars, uiVars, pc, idx, runnerVars, activeProcesses, running,
                    procsToKill, fsVars, progressVars, loudnormFilter, exc, errAt,
                    result, emits, runs, histVars >>

\* cancel(), lines 45-47: the snapshot of the registry under process_lock.
CancelSnapshot ==
    /\ cpc = "snapshot"
    /\ procsToKill' = activeProcesses
    /\ cpc' = "kill"
    /\ UNCHANGED << projVars, uiVars, pc, idx, runnerVars, isCanceled, activeProcesses,
                    running, cancelDuringRun, cancelSaw, fsVars, progressVars,
                    loudnormFilter, exc, errAt, result, emits, runs, histVars >>

\* cancel(), lines 49-55: kill() and waitForFinished(5000) for each process of the
\* snapshot that is not NotRunning.
CancelKill ==
    /\ cpc = "kill"
    /\ IF procsToKill = {}
       THEN /\ cpc' = "idle"
            /\ UNCHANGED << running, procsToKill >>
       ELSE \E p \in procsToKill :
               /\ running' = running \ {p}
               /\ procsToKill' = procsToKill \ {p}
               /\ cpc' = cpc
    /\ UNCHANGED << projVars, uiVars, pc, idx, runnerVars, isCanceled, activeProcesses,
                    cancelDuringRun, cancelSaw, fsVars, progressVars, loudnormFilter,
                    exc, errAt, result, emits, runs, histVars >>

\* ------------------------------------------------------- _run_subprocess
\* The call sites of _run_subprocess, named by what the child does.
CallSites == {"probe", "pass1", "pass2", "encode", "frame_prev", "frame_next",
              "ext_prev", "ext_next", "join", "concat", "analyze", "norm", "embed"}

\* The pipeline step a call site belongs to.
StepOf(site, i) ==
    CASE site \in {"probe", "pass1", "pass2", "encode"} -> << "slide", i >>
      [] site \in {"frame_prev", "frame_next", "ext_prev", "ext_next", "join"}
                                                         -> << "transition", i >>
      [] site = "concat" -> << "concat", 0 >>
      [] site \in {"analyze", "norm"} -> << "normalize", 0 >>
      [] OTHER -> << "embed", 0 >>

\* A step is logged when it starts, with the value of the flag at that moment.
LogStep(step) ==
    IF Len(steps) > 0 /\ steps[Len(steps)] = step
    THEN UNCHANGED << steps, flagAtStart >>
    ELSE /\ steps' = Append(steps, step)
         /\ flagAtStart' = Append(flagAtStart, isCanceled)

\* A run that lets its last step write the published file itself.
OutputVideoPathFinal == "final"

\* The path _run_logic is given as output_video_path (run_video_creation, lines
\* 143 and 150): the temp path beside the final one.
OutputVideoPath == "temp"

\* The child of the chapter embed writes output_video_path; the other children write
\* into the scratch directory.
ChildWrites(content) ==
    IF pc = "embed"
    THEN IF OutputVideoPath = "temp"
         THEN /\ tempPath' = content
              /\ UNCHANGED << finalPath, sidecar >>
         ELSE /\ finalPath' = content
              /\ UNCHANGED << tempPath, sidecar >>
    ELSE UNCHANGED fsVars

\* What each way out of the call carries: the exception of line 125 and the return
\* value of line 127 hold combined_output; the exceptions of lines 79, 103, 112 and
\* 118 hold a fixed message.
Carries(o) == IF o \in {"NonZeroExit", "OK"} THEN "output" ELSE "message"

\* Lines 78-79: the check of the flag in front of everything else.
RunGate ==
    /\ rpc = "gate"
    /\ IF isCanceled
       THEN /\ outcome' = "Canceled"
            /\ carried' = Carries("Canceled")
            /\ rpc' = "returned"
            /\ UNCHANGED << steps, flagAtStart >>
       ELSE /\ rpc' = "create"
            /\ outcome' = outcome
            /\ carried' = carried
            /\ LogStep(StepOf(pc, idx))
    /\ UNCHANGED << projVars, uiVars, pc, idx, finishedNormally, exitOK, procSeq,
                    curProc, isCanceled, activeProcesses, running, cancelVars, fsVars,
                    progressVars, loudnormFilter, exc, errAt, result, emits, runs,
                    segOK, transOK, completed >>

\* Lines 81-97: the QProcess is created and registered (register_process).
RunCreate ==
    /\ rpc = "create"
    /\ procSeq' = procSeq + 1
    /\ curProc' = procSeq + 1
    /\ activeProcesses' = activeProcesses \cup {procSeq + 1}
    /\ rpc' = "start"
    /\ UNCHANGED carried
    /\ UNCHANGED << projVars, uiVars, pc, idx, outcome, finishedNormally, exitOK,
                    isCanceled, running, cancelVars, fsVars, progressVars,
                    loudnormFilter, exc, errAt, result, emits, runs, histVars >>

\* Line 100: process.start(); the QProcess leaves NotRunning.
RunStart ==
    /\ rpc = "start"
    /\ running' = running \cup {curProc}
    /\ rpc' = "waitStarted"
    /\ UNCHANGED carried
    /\ UNCHANGED << projVars, uiVars, pc, idx, outcome, finishedNormally, exitOK,
                    procSeq, curProc, isCanceled, activeProcesses, cancelVars, fsVars,
                    progressVars, loudnormFilter, exc, errAt, result, emits, runs,
                    histVars >>

\* Lines 102-103: waitForStarted. It fails when the executable cannot be launched
\* and when the process was killed meanwhile.
RunWaitForStarted ==
    /\ rpc = "waitStarted"
    /\ \/ /\ curProc \in running
          /\ rpc' = "waitFinished"
          /\ ChildWrites("partial")
          /\ UNCHANGED << outcome, carried, running >>
       \/ /\ running' = running \ {curProc}
          /\ outcome' = "ProcessStartError"
          /\ carried' = Carries("ProcessStartError")
          /\ rpc' = "finally"
          /\ UNCHANGED fsVars
    /\ UNCHANGED << projVars, uiVars, pc, idx, finishedNormally, exitOK, procSeq,
                    curProc, isCanceled, activeProcesses, cancelVars, progressVars,
                    loudnormFilter, exc, errAt, result, emits, runs, histVars >>

\* Lines 105-109: waitForFinished(timeout_ms). The child exits by itself (with any
\* exit code), has been killed by cancel(), or is still running when the wait ends.
RunWaitForFinished ==
    /\ rpc = "waitFinished"
    /\ \/ /\ curProc \in running
          /\ \E ok \in BOOLEAN :
                /\ exitOK' = ok
                /\ IF ok THEN ChildWrites("complete") ELSE UNCHANGED fsVars
          /\ running' = running \ {curProc}
          /\ finishedNormally' = TRUE
       \/ /\ curProc \notin running
          /\ exitOK' = FALSE
          /\ finishedNormally' = TRUE
          /\ UNCHANGED << running, fsVars >>
       \/ /\ curProc \in running
          /\ finishedNormally' = FALSE
          /\ exitOK' = FALSE
          /\ UNCHANGED << running, fsVars >>
    /\ rpc' = "postCheck"
    /\ UNCHANGED carried
    /\ UNCHANGED << projVars, uiVars, pc, idx, outcome, procSeq, curProc, isCanceled,
                    activeProcesses, cancelVars, progressVars, loudnormFilter, exc,
                    errAt, result, emits, runs, histVars >>

\* A runner that looks at the exit code before it looks at the timeout.
ClassifyExitFirst(canceled, finished_normally, exit_ok) ==
    IF canceled THEN "Canceled"
    ELSE IF ~exit_ok THEN "NonZeroExit"
    ELSE IF ~finished_normally THEN "Timeout"
    ELSE "OK"

\* Lines 111-127: the classification of the ended wait.
Classify(canceled, finished_normally, exit_ok) ==
    IF canceled THEN "Canceled"
    ELSE IF ~finished_normally THEN "Timeout"
    ELSE IF ~exit_ok THEN "NonZeroExit"
    ELSE "OK"

RunPostCheck ==
    /\ rpc = "postCheck"
    /\ outcome' = Classify(isCanceled, finishedNormally, exitOK)
    /\ carried' = Carries(outcome')
    /\ running' = IF outcome' = "Timeout" THEN running \ {curProc} ELSE running
    /\ rpc' = "finally"
    /\ UNCHANGED << projVars, uiVars, pc, idx, finishedNormally, exitOK, procSeq,
                    curProc, isCanceled, activeProcesses, cancelVars, fsVars,
                    progressVars, loudnormFilter, exc, errAt, result, emits, runs,
                    histVars >>

\* Lines 129-130: finally: unregister_process.
RunFinally ==
    /\ rpc = "finally"
    /\ activeProcesses' = activeProcesses \ {curProc}
    /\ rpc' = "returned"
    /\ UNCHANGED carried
    /\ UNCHANGED << projVars, uiVars, pc, idx, outcome, finishedNormally, exitOK,
                    procSeq, curProc, isCanceled, running, cancelVars, fsVars,
                    progressVars, loudnormFilter, exc, errAt, result, emits, runs,
                    histVars >>

\* ------------------------------------------- the worker: control helpers
\* What no step of the worker outside _run_subprocess changes.
envRest == << uiState, cpc, procsToKill, cancelSaw, activeProcesses, running,
              procSeq, curProc, finishedNormally, exitOK, outcome, carried >>
envVars == << projVars, envRest >>

Goto(p) == pc' = p /\ rpc' = "none" /\ UNCHANGED << exc, errAt >>
Call(site) == pc' = site /\ rpc' = "gate" /\ UNCHANGED << exc, errAt >>
Raise(kind, site) == pc' = "except" /\ rpc' = "none" /\ exc' = kind /\ errAt' = site

Returned(site) == pc = site /\ rpc = "returned"

Max(a, b) == IF a >= b THEN a ELSE b

\* int(self._current_step / self._total_steps * 100), lines 526, 551 and 626.
Percent(current_step, total_steps) == (current_step * 100) \div total_steps

\* The slides and the final step only, the interval clips left out.
TotalStepsWithoutTransitions(total_slides) == total_slides + 1

\* _run_logic, line 630.
TotalSteps(total_slides) == total_slides + Max(0, total_slides - 1) + 1

\* range(total_slides - 1) with the last slide taken for a pair too.
TransitionPairsWithLast == NSlides

\* _generate_transition_videos, line 539: range(total_slides - 1).
TransitionPairs == NSlides - 1

RECURSIVE FinalVideoList(_, _, _)
\* _concatenate_videos, lines 562-566: final_video_list from slide i on, for n
\* slide videos and the keys of transition_videos_map.
FinalVideoList(n, transition_videos_map, i) ==
    IF i > n THEN << >>
    ELSE << << "slide", i >> >>
         \o (IF i \in transition_videos_map THEN << << "interval", i >> >> ELSE << >>)
         \o FinalVideoList(n, transition_videos_map, i + 1)

\* any(s.chapter_title for s in project_model.slides)
AnyChapterTitle == \E i \in 1..NSlides : model.slides[i].chapter_title

\* The first encoder invocation of _execute_encoding.
FirstEncodeSite == IF Is2Pass(params) THEN "pass1" ELSE "encode"

\* ------------------------------------------------ start_video_creation
\* The slot is invoked with the queued start signal (lines 57-60, 138).
StartVideoCreation ==
    /\ pc = "idle"
    /\ startPending
    /\ startPending' = FALSE
    /\ runs' = runs + 1
    /\ pc' = "rvc_reset" /\ rpc' = "none"
    /\ exc' = "none" /\ errAt' = "none" /\ result' = NoResult
    /\ finalPath' = (IF finalPath = "absent" THEN "absent" ELSE "old")
    /\ finalAtStart' = finalPath'
    /\ tempPath' = (IF tempPath = "absent" THEN "absent" ELSE "stale")
    /\ steps' = << >> /\ flagAtStart' = << >>
    /\ segOK' = {} /\ transOK' = {} /\ completed' = {}
    /\ cancelDuringRun' = FALSE
    /\ loudnormFilter' = "none"
    /\ UNCHANGED << model, builder, cmd, geometryVars, dispatchVars, validationVars,
                    concatList, audioDuration, warnings, envRest, finishedPending, idx, isCanceled,
                    sidecar, progressVars, emits >>

\* run_video_creation, lines 139-145: the flag is reset.
ResetFlag ==
    /\ pc = "rvc_reset"
    /\ isCanceled' = FALSE
    /\ Goto("run_logic")
    /\ UNCHANGED << envVars, startPending, finishedPending, idx, fsVars, progressVars,
                    loudnormFilter, result, emits, runs, histVars, cancelDuringRun >>

\* _run_logic, lines 629-634: the step count and _setup_processing.
RunLogicSetup ==
    /\ pc = "run_logic"
    /\ totalSteps' = TotalSteps(NSlides)
    /\ currentStep' = 0
    /\ progress' = << >>
    /\ LogStep(<< "setup", 0 >>)
    /\ Goto("render")
    /\ UNCHANGED << envVars, startPending, finishedPending, idx, isCanceled, fsVars,
                    loudnormFilter, result, emits, runs, segOK, transOK, completed,
                    cancelDuringRun >>

\* _render_pdf_pages, lines 483-496: the project folder and the PDF are looked up.
RenderOpen ==
    /\ pc = "render"
    /\ \/ Goto("render_page") /\ idx' = 1
       \/ Raise("Error", "render") /\ idx' = idx
    /\ UNCHANGED << envVars, startPending, finishedPending, isCanceled, fsVars,
                    progressVars, loudnormFilter, result, emits, runs, histVars,
                    cancelDuringRun >>

\* _render_pdf_pages, lines 497-513: one page per iteration, the flag checked first.
RenderPage ==
    /\ pc = "render_page"
    /\ IF idx > NSlides
       THEN /\ Goto("slide_gate") /\ idx' = 1
            /\ LogStep(<< "render", 0 >>)
       ELSE IF isCanceled
            THEN /\ Raise("Canceled", "render") /\ idx' = idx
                 /\ UNCHANGED << steps, flagAtStart >>
            ELSE /\ LogStep(<< "render", 0 >>)
                 /\ \/ Goto("render_page") /\ idx' = idx + 1
                    \/ Raise("Error", "render") /\ idx' = idx
    /\ UNCHANGED << envVars, startPending, finishedPending, isCanceled, fsVars,
                    progressVars, loudnormFilter, result, emits, runs, segOK, transOK,
                    completed, cancelDuringRun >>

\* _generate_slide_videos, lines 519-520 and 533: the loop over the slides.
SlideLoop ==
    /\ pc = "slide_gate"
    /\ IF idx > NSlides
       THEN Goto("trans_gate") /\ idx' = 1
       ELSE IF isCanceled
            THEN Raise("Canceled", "slide") /\ idx' = idx
            ELSE Goto("slide_gate2") /\ idx' = idx
    /\ UNCHANGED << envVars, startPending, finishedPending, isCanceled, fsVars,
                    progressVars, loudnormFilter, result, emits, runs, histVars,
                    cancelDuringRun >>

\* _generate_single_slide_video, lines 333-344, the dispatch of get_processor and
\* _process_slide / _overlay_video_on_image up to their first child process.
GenerateSingleSlideVideo ==
    /\ pc = "slide_gate2"
    /\ IF isCanceled
       THEN Raise("Canceled", "slide")
       ELSE IF model.slides[idx].kind = "Audio"
            THEN Call("probe")
            ELSE Call(FirstEncodeSite)
    /\ UNCHANGED << envVars, startPending, finishedPending, idx, isCanceled, fsVars,
                    progressVars, loudnormFilter, result, emits, runs, histVars,
                    cancelDuringRun >>

\* An except clause that lets the TimeoutError through.
ProbeCatchesAllButTimeout(o) == o # "Timeout"

\* _get_media_duration, line 973: `except Exception` catches whatever the probe
\* raised, ProcessingCanceled included; float() of an unparsable output too.
ProbeCatches(o) == TRUE

\* _get_media_duration, lines 965-975: every exception of the probe is caught and
\* 0.0 is returned; _process_slide goes on to the encode.
ProbeReturn ==
    /\ Returned("probe")
    /\ IF outcome = "OK"
       THEN \/ audioDuration' = "probed" /\ UNCHANGED warnings
            \/ /\ audioDuration' = "0.0"
               /\ warnings' = warnings \cup {<< "probe", "ValueError" >>}
       ELSE /\ audioDuration' = "0.0"
            /\ warnings' = warnings \cup {<< "probe", outcome >>}
    /\ IF ProbeCatches(outcome)
       THEN Call(FirstEncodeSite)
       ELSE Raise(outcome, "probe")
    /\ UNCHANGED << staticVars, concatList, envRest, startPending, finishedPending, idx,
                    isCanceled, fsVars, progressVars, loudnormFilter, result, emits,
                    runs, histVars, cancelDuringRun >>

\* _generate_slide_videos, lines 524-527: the slide is counted as done.
FinishSlide ==
    /\ currentStep' = currentStep + 1
    /\ progress' = Append(progress, Percent(currentStep', totalSteps))
    /\ idx' = idx + 1
    /\ Goto("slide_gate")

\* _execute_encoding, lines 675-676: after pass 1 a set flag makes it return.
Pass1Return ==
    /\ Returned("pass1")
    /\ IF outcome = "OK"
       THEN IF isCanceled
            THEN FinishSlide /\ UNCHANGED totalSteps
            ELSE Call("pass2") /\ UNCHANGED << idx, progressVars >>
       ELSE Raise(outcome, "pass1") /\ UNCHANGED << idx, progressVars >>
    /\ UNCHANGED << envVars, startPending, finishedPending, isCanceled, fsVars,
                    loudnormFilter, result, emits, runs, histVars, cancelDuringRun >>

\* _execute_encoding, lines 684 and 693: the encode that writes the segment.
EncodeReturn ==
    /\ Returned("pass2") \/ Returned("encode")
    /\ IF outcome = "OK"
       THEN /\ FinishSlide /\ UNCHANGED totalSteps
            /\ segOK' = segOK \cup {idx}
       ELSE /\ Raise(outcome, pc)
            /\ UNCHANGED << idx, progressVars, segOK >>
    /\ UNCHANGED << envVars, startPending, finishedPending, isCanceled, fsVars,
                    loudnormFilter, result, emits, runs, steps, flagAtStart, transOK,
                    completed, cancelDuringRun >>

\* _generate_transition_videos, lines 538-543 and 558, then _concatenate_videos,
\* lines 561-578, up to its stream-copy child.
TransitionLoop ==
    /\ pc = "trans_gate"
    /\ IF idx > TransitionPairs
       THEN /\ Call("concat") /\ idx' = idx
            /\ concatList' = FinalVideoList(NSlides, transOK, 1)
       ELSE /\ UNCHANGED concatList
            /\ IF isCanceled
               THEN Raise("Canceled", "transition") /\ idx' = idx
               ELSE IF model.slides[idx].interval_to_next > 0
                    THEN Goto("trans_gate2") /\ idx' = idx
                    ELSE Goto("trans_gate") /\ idx' = idx + 1
    /\ UNCHANGED << staticVars, audioDuration, warnings, envRest, startPending,
                    finishedPending, isCanceled, fsVars, progressVars, loudnormFilter,
                    result, emits, runs, histVars, cancelDuringRun >>

\* _generate_single_transition_video, lines 430-445, into _create_extended_videos.
GenerateSingleTransitionVideo ==
    /\ pc = "trans_gate2"
    /\ IF isCanceled
       THEN Raise("Canceled", "transition")
       ELSE Call("frame_prev")
    /\ UNCHANGED << envVars, startPending, finishedPending, idx, isCanceled, fsVars,
                    progressVars, loudnormFilter, result, emits, runs, histVars,
                    cancelDuringRun >>

\* _create_extended_videos, lines 923-951, then the join of lines 895 / 912.
NextTransitionSite(site) ==
    CASE site = "frame_prev" -> "frame_next"
      [] site = "frame_next" -> "ext_prev"
      [] site = "ext_prev" -> "ext_next"
      [] OTHER -> "join"

TransitionStepReturn ==
    /\ rpc = "returned"
    /\ pc \in {"frame_prev", "frame_next", "ext_prev", "ext_next"}
    /\ IF outcome = "OK"
       THEN Call(NextTransitionSite(pc))
       ELSE Raise(outcome, pc)
    /\ UNCHANGED << envVars, startPending, finishedPending, idx, isCanceled, fsVars,
                    progressVars, loudnormFilter, result, emits, runs, histVars,
                    cancelDuringRun >>

\* _create_transition_video / _create_simple_interval_video return; lines 447-552.
JoinReturn ==
    /\ Returned("join")
    /\ IF outcome = "OK"
       THEN /\ transOK' = transOK \cup {idx}
            /\ currentStep' = currentStep + 1
            /\ progress' = Append(progress, Percent(currentStep', totalSteps))
            /\ idx' = idx + 1
            /\ Goto("trans_gate")
       ELSE /\ Raise(outcome, "join")
            /\ UNCHANGED << transOK, currentStep, progress, idx >>
    /\ UNCHANGED << envVars, startPending, finishedPending, isCanceled, fsVars,
                    totalSteps, loudnormFilter, result, emits, runs, steps, flagAtStart,
                    segOK, completed, cancelDuringRun >>

\* _concatenate_videos, lines 579-580: the stream copy is the only attempt; then
\* _finalize_video, lines 583-598, up to the first child of the normalization.
ConcatReturn ==
    /\ Returned("concat")
    /\ IF outcome = "OK"
       THEN /\ completed' = completed \cup {"concat"}
            /\ CASE params.normalize = "off" ->
                        Goto("finalize_out") /\ UNCHANGED loudnormFilter
                 [] params.normalize = "1-Pass (Faster)" ->
                        Call("norm") /\ loudnormFilter' = "loudnorm"
                 [] OTHER ->
                        Call("analyze") /\ UNCHANGED loudnormFilter
       ELSE /\ Raise(outcome, "concat")
            /\ UNCHANGED << completed, loudnormFilter >>
    /\ UNCHANGED << envVars, startPending, finishedPending, idx, isCanceled, fsVars,
                    progressVars, result, emits, runs, steps, flagAtStart, segOK,
                    transOK, cancelDuringRun >>

\* An except clause that lets a nonzero exit of the analysis through.
AnalysisCatchesAllButExit(o) == o # "NonZeroExit"

\* _finalize_video, line 599: `except Exception` around _get_loudnorm_params.
AnalysisCatches(o) == TRUE

\* _finalize_video, lines 595-606: the analysis pass of the two-pass normalization.
\* Whatever it raises is caught (line 599) and the one-pass filter is used; a missing
\* JSON block in its output (_get_loudnorm_params, line 1063) ends the same way.
AnalyzeReturn ==
    /\ Returned("analyze")
    /\ IF outcome = "OK"
       THEN \/ loudnormFilter' = "loudnorm=measured" /\ UNCHANGED warnings
            \/ /\ loudnormFilter' = "loudnorm"
               /\ warnings' = warnings \cup {<< "analyze", "ValueError" >>}
       ELSE /\ loudnormFilter' = (IF AnalysisCatches(outcome) THEN "loudnorm" ELSE "none")
            /\ warnings' = IF AnalysisCatches(outcome)
                           THEN warnings \cup {<< "analyze", outcome >>}
                           ELSE warnings
    /\ IF AnalysisCatches(outcome)
       THEN Call("norm")
       ELSE Raise(outcome, "analyze")
    /\ UNCHANGED << staticVars, concatList, audioDuration, envRest, startPending,
                    finishedPending, idx, isCanceled, fsVars, progressVars, result,
                    emits, runs, histVars, cancelDuringRun >>

\* _finalize_video, lines 607-608: the normalizing encode.
NormReturn ==
    /\ Returned("norm")
    /\ IF outcome = "OK"
       THEN Goto("finalize_out") /\ completed' = completed \cup {"normalize"}
       ELSE Raise(outcome, "norm") /\ UNCHANGED completed
    /\ UNCHANGED << envVars, startPending, finishedPending, idx, isCanceled, fsVars,
                    progressVars, loudnormFilter, result, emits, runs, steps,
                    flagAtStart, segOK, transOK, cancelDuringRun >>

\* shutil.move(video_to_finalize, final_output_path) of line 623 and the unlink in
\* front of it; final_output_path is the output_video_path of _run_logic.
MoveToOutput ==
    IF OutputVideoPath = "temp"
    THEN tempPath' = "complete" /\ UNCHANGED << finalPath, sidecar >>
    ELSE finalPath' = "complete" /\ UNCHANGED << tempPath, sidecar >>

\* _finalize_video, lines 610-623: the chapter embed, or the plain move.
FinalizeOutput ==
    /\ pc = "finalize_out"
    /\ IF AnyChapterTitle
       THEN /\ Call("embed")
            /\ UNCHANGED << fsVars, completed >>
       ELSE \/ /\ MoveToOutput
               /\ completed' = completed \cup {"move"}
               /\ Goto("finalize_done")
            \/ /\ Raise("Error", "move")
               /\ UNCHANGED << fsVars, completed >>
    /\ UNCHANGED << envVars, startPending, finishedPending, idx, isCanceled,
                    progressVars, loudnormFilter, result, emits, runs, steps,
                    flagAtStart, segOK, transOK, cancelDuringRun >>

\* _finalize_video, line 620: the embed child has returned.
EmbedReturn ==
    /\ Returned("embed")
    /\ IF outcome = "OK"
       THEN Goto("finalize_done") /\ completed' = completed \cup {"embed"}
       ELSE Raise(outcome, "embed") /\ UNCHANGED completed
    /\ UNCHANGED << envVars, startPending, finishedPending, idx, isCanceled, fsVars,
                    progressVars, loudnormFilter, result, emits, runs, steps,
                    flagAtStart, segOK, transOK, cancelDuringRun >>

\* _finalize_video, lines 625-626, and the return of _run_logic.
FinalizeDone ==
    /\ pc = "finalize_done"
    /\ currentStep' = currentStep + 1
    /\ progress' = Append(progress, Percent(currentStep', totalSteps))
    /\ Goto("publish_check")
    /\ UNCHANGED << envVars, startPending, finishedPending, idx, isCanceled, fsVars,
                    totalSteps, loudnormFilter, result, emits, runs, histVars,
                    cancelDuringRun >>

\* run_video_creation, line 156: the only check between the last step and publish.
PublishCheck ==
    /\ pc = "publish_check"
    /\ IF ~isCanceled
       THEN Goto("publish_unlink") /\ LogStep(<< "publish", 0 >>)
       ELSE Goto("return_none") /\ UNCHANGED << steps, flagAtStart >>
    /\ UNCHANGED << envVars, startPending, finishedPending, idx, isCanceled, fsVars,
                    progressVars, loudnormFilter, result, emits, runs, segOK, transOK,
                    completed, cancelDuringRun >>

\* run_video_creation, lines 157-158: an existing final file is removed.
PublishUnlink ==
    /\ pc = "publish_unlink"
    /\ finalPath' = "absent"
    /\ Goto("publish_move")
    /\ UNCHANGED << envVars, startPending, finishedPending, idx, isCanceled, tempPath,
                    sidecar, progressVars, loudnormFilter, result, emits, runs,
                    histVars, cancelDuringRun >>

\* run_video_creation, line 159: shutil.move(temp_video_path, final_output_path).
PublishMove ==
    /\ pc = "publish_move"
    /\ \/ /\ tempPath # "absent"
          /\ finalPath' = tempPath
          /\ tempPath' = "absent"
          /\ Goto("chapters")
       \/ /\ Raise("Error", "publish")
          /\ UNCHANGED << finalPath, tempPath >>
    /\ UNCHANGED << envVars, startPending, finishedPending, idx, isCanceled, sidecar,
                    progressVars, loudnormFilter, result, emits, runs, histVars,
                    cancelDuringRun >>

\* run_video_creation, lines 161-169: the YouTube chapter file, then the result.
\* _generate_youtube_chapter_file raises when its guard fails; that and a failed
\* write are caught and logged.
ExportChapters ==
    /\ pc = "chapters"
    /\ IF params.export_youtube_chapters /\ ChapterFileAllowed(model.slides)
       THEN sidecar' \in {"written", sidecar}
       ELSE sidecar' = sidecar
    /\ result' = [kind |-> "success", message |-> "final path"]
    /\ Goto("slot_return")
    /\ UNCHANGED << envVars, startPending, finishedPending, idx, isCanceled, finalPath,
                    tempPath, progressVars, loudnormFilter, emits, runs, histVars,
                    cancelDuringRun >>

\* run_video_creation, lines 171-180: both handlers remove the temp file and return
\* a failure.
ExceptHandler ==
    /\ pc = "except"
    /\ tempPath' = "absent"
    /\ result' = [kind |-> "failure",
                  message |-> IF exc = "Canceled" THEN "Canceled by user." ELSE exc]
    /\ Goto("slot_return")
    /\ UNCHANGED << envVars, startPending, finishedPending, idx, isCanceled, finalPath,
                    sidecar, progressVars, loudnormFilter, emits, runs, histVars,
                    cancelDuringRun >>

\* run_video_creation when the check of line 156 fails: the try block ends without a
\* return statement, so the function returns None.
ReturnNone ==
    /\ pc = "return_none"
    /\ result' = [kind |-> "None", message |-> ""]
    /\ Goto("slot_return")
    /\ UNCHANGED << envVars, startPending, finishedPending, idx, isCanceled, fsVars,
                    progressVars, loudnormFilter, emits, runs, histVars,
                    cancelDuringRun >>

\* start_video_creation, lines 60-61: the result is unpacked and emitted. Unpacking
\* None raises TypeError and the slot ends without emitting.
EmitVideoFinished ==
    /\ pc = "slot_return"
    /\ IF result.kind = "None"
       THEN UNCHANGED << emits, finishedPending >>
       ELSE emits' = emits + 1 /\ finishedPending' = TRUE
    /\ Goto("idle")
    /\ UNCHANGED << envVars, startPending, idx, isCanceled, fsVars, progressVars,
                    loudnormFilter, result, runs, histVars, cancelDuringRun >>

\* The QProcess of a call is a local of _run_subprocess (line 83). Once nothing
\* refers to it any more the object is destroyed, and Qt's destructor kills a child
\* that is still running. When that happens is up to the interpreter.
ProcessDestroyed ==
    /\ \E p \in running :
          /\ p \notin activeProcesses
          /\ p \notin procsToKill
          /\ ~(p = curProc /\ rpc \notin {"none", "returned"})
          /\ running' = running \ {p}
    /\ UNCHANGED carried
    /\ UNCHANGED << projVars, uiVars, pc, idx, rpc, outcome, finishedNormally, exitOK,
                    procSeq, curProc, isCanceled, activeProcesses, cancelVars, fsVars,
                    progressVars, loudnormFilter, exc, errAt, result, emits, runs,
                    histVars >>

\* ------------------------------------------------------------ the system
RunSubprocess ==
    \/ RunGate \/ RunCreate \/ RunStart \/ RunWaitForStarted \/ RunWaitForFinished
    \/ RunPostCheck \/ RunFinally

Cancel == CancelSetFlag \/ CancelSnapshot \/ CancelKill

Worker ==
    \/ StartVideoCreation \/ ResetFlag \/ RunLogicSetup \/ RenderOpen \/ RenderPage
    \/ SlideLoop \/ GenerateSingleSlideVideo \/ ProbeReturn \/ Pass1Return
    \/ EncodeReturn \/ TransitionLoop \/ GenerateSingleTransitionVideo
    \/ TransitionStepReturn \/ JoinReturn \/ ConcatReturn \/ AnalyzeReturn
    \/ NormReturn \/ FinalizeOutput \/ EmbedReturn \/ FinalizeDone \/ PublishCheck
    \/ PublishUnlink \/ PublishMove \/ ExportChapters \/ ExceptHandler \/ ReturnNone
    \/ EmitVideoFinished

MainWindow == RunCreateVideo \/ CancelVideoCreation \/ OnProcessingFinished

Next == MainWindow \/ Cancel \/ Worker \/ RunSubprocess \/ ProcessDestroyed

Spec == Init /\ [][Next]_vars

\* ================================================================ claims
\* The steps a run has to complete before it publishes.
AllStepsSucceeded ==
    /\ segOK = 1..NSlides
    /\ transOK = { i \in 1..(NSlides - 1) : model.slides[i].interval_to_next > 0 }
    /\ "concat" \in completed
    /\ (params.normalize # "off" => "normalize" \in completed)
    /\ (IF AnyChapterTitle THEN "embed" \in completed ELSE "move" \in completed)

\* Position of a step in the fixed order of the pipeline.
StepRank(step) ==
    CASE step[1] = "setup" -> 0
      [] step[1] = "render" -> 1
      [] step[1] = "slide" -> 10 + step[2]
      [] step[1] = "transition" -> 100 + step[2]
      [] step[1] = "concat" -> 200
      [] step[1] = "normalize" -> 300
      [] step[1] = "embed" -> 400
      [] OTHER -> 500

\* C1: when the stream-copy concatenation of a full run fails for a reason other
\* than cancellation, the run does not end in that failure: the concatenation is
\* retried as a re-encode and the run goes on.
C1_ConcatFailureIsRetried ==
    ~(pc = "except" /\ errAt = "concat" /\ exc # "Canceled")

\* C2: once cancel() has been entered while a run is executing, that run never
\* changes what is at the final path, and no child process is running any more when
\* the run returns.
C2_CancelNeverPublishes ==
    /\ [][(cancelDuringRun /\ RunExecuting) => finalPath' = finalPath]_vars
    /\ [](cancelDuringRun /\ pc = "slot_return" => running = {})

\* C3: the final path only ever holds what was there before the run or the complete
\* output, moved there from the temp path after every step of the run succeeded; a
\* run that failed or was canceled has put nothing at the final path.
C3_FinalPathOnlyByFinalMove ==
    /\ finalPath \in {"absent", "old", "complete"}
    /\ (finalPath = "complete" => AllStepsSucceeded /\ tempPath = "absent"
                                  /\ pc \in {"chapters", "slot_return", "idle"})
    /\ (result.kind \in {"failure", "None"} => finalPath \in {"absent", "old"})

\* A run has published its output and reported success.
C3_Witness ==
    /\ finalPath = "complete" /\ result.kind = "success"
    /\ NSlides = MaxSlides /\ AnyChapterTitle

\* C4: whenever the worker is back at rest, every run it executed has delivered
\* exactly one terminal result.
C4_OneResultPerRun ==
    pc = "idle" => emits = runs

\* C5: a call of the process runner that settles its outcome while the cancellation
\* flag is set settles it as Canceled, and a call that ended as Canceled has left no
\* running child behind.
C5_CanceledTakesPriority ==
    /\ [][(isCanceled /\ rpc # "finally" /\ rpc' = "finally")
              => outcome' = "Canceled"]_vars
    /\ [](rpc = "returned" /\ outcome = "Canceled" => curProc \notin running)

\* C6: when a run returns anything but success, no file is at the temp path.
C6_NoTempFileAfterFailure ==
    (pc = "slot_return" /\ result.kind # "success") => tempPath = "absent"

\* C7: the steps of a run start in the fixed order of the pipeline, and none of them
\* starts while the cancellation flag is set.
C7_OrderedAndGated ==
    /\ \A k \in 1..(Len(steps) - 1) : StepRank(steps[k]) < StepRank(steps[k + 1])
    /\ \A k \in 1..Len(flagAtStart) : ~flagAtStart[k]

\* C8: a child is registered from before its start until the runner has finished
\* waiting on it, a finished cancel() has killed every child that was running when
\* it was entered, and no process is registered outside a call of the runner.
C8_RegistryCoversChildren ==
    /\ (rpc \in {"start", "waitStarted", "waitFinished", "postCheck"}
            => curProc \in activeProcesses)
    /\ (cpc = "idle" => cancelSaw \cap running = {})
    /\ (rpc \in {"none", "gate", "returned"} => activeProcesses = {})

\* ------------------------------------------- the encode of one slide alone
\* Every combination of codec, hardware choice, encoding mode and pass count.
EncParams ==
    { [codec |-> c, hardware_encoding |-> h, encoding_mode |-> m, encoding_pass |-> q,
       normalize |-> "off", export_youtube_chapters |-> FALSE] :
         c \in Codecs, h \in Hardware, m \in ENCODING_MODES, q \in ENCODING_PASSES }

\* A run of a one-slide project that has rendered its page and enters the loop of
\* _generate_slide_videos.
InitEnc ==
    /\ model \in { [slides |-> << s >>, parameters |-> p] :
                     s \in SlideSamples, p \in EncParams }
    /\ finalPath = "absent"
    /\ builder = NewBuilder /\ cmd = << >>
    /\ uiState = "PROCESSING" /\ startPending = FALSE /\ finishedPending = FALSE
    /\ pc = "slide_gate" /\ idx = 1
    /\ rpc = "none" /\ outcome = "none" /\ finishedNormally = FALSE /\ exitOK = FALSE
    /\ carried = "none"
    /\ isCanceled = FALSE /\ activeProcesses = {} /\ running = {}
    /\ procSeq = 0 /\ curProc = 0
    /\ cpc = "idle" /\ procsToKill = {}
    /\ tempPath = "absent" /\ sidecar = "absent"
    /\ currentStep = 0 /\ totalSteps = TotalSteps(1) /\ progress = << >>
    /\ concatList = << >> /\ audioDuration = "none" /\ warnings = {}
    /\ loudnormFilter = "none"
    /\ InitPinp /\ InitDispatch
    /\ exc = "none" /\ errAt = "none" /\ result = NoResult
    /\ emits = 0 /\ runs = 1
    /\ steps = << << "setup", 0 >>, << "render", 0 >> >>
    /\ flagAtStart = << FALSE, FALSE >>
    /\ segOK = {} /\ transOK = {} /\ completed = {}
    /\ cancelDuringRun = FALSE /\ cancelSaw = {}
    /\ finalAtStart = "none"
    /\ vpc = "idle" /\ validatorCanceled = FALSE /\ validationSignal = "none"
    /\ validations = 0

NextEnc ==
    \/ SlideLoop \/ GenerateSingleSlideVideo \/ ProbeReturn \/ Pass1Return
    \/ EncodeReturn \/ RunSubprocess

SpecEnc == InitEnc /\ [][NextEnc]_vars

\* C9: an encode runs two passes exactly when the pass count is two-pass, the mode
\* is not the quality mode and the hardware choice is not videotoolbox, whatever the
\* codec.
C9_TwoPassIffEligible ==
    LET eligible == /\ params.encoding_pass = TWO_PASS
                    /\ params.encoding_mode # QUALITY
                    /\ params.hardware_encoding # "videotoolbox"
    IN  /\ (pc \in {"pass1", "pass2"} => eligible)
        /\ (pc = "encode" => ~eligible)

\* ------------------------------------------ the chapter export step alone
MaxChapSlides == 3

\* Slides of all shapes that matter to the chapter list: titled or not, shorter or
\* longer than ten seconds, followed by an interval or not.
ChapSlideSamples ==
    { [kind |-> "Silent", duration |-> d, interval_to_next |-> g,
       transition_to_next |-> "None", chapter_title |-> t] :
         d \in {4, 12}, g \in {0, 2}, t \in BOOLEAN }

ChapParams ==
    { [codec |-> "H.264/MPEG-4 AVC", hardware_encoding |-> "None",
       encoding_mode |-> QUALITY, encoding_pass |-> ONE_PASS,
       normalize |-> "off", export_youtube_chapters |-> e] : e \in BOOLEAN }

\* The steps a successful run without normalization has started, in order.
StepsOfSuccessfulRun(slides) ==
    LET n == Len(slides)
        titled == \E i \in 1..n : slides[i].chapter_title
    IN  << << "setup", 0 >>, << "render", 0 >> >>
        \o [i \in 1..n |-> << "slide", i >>]
        \o SelectSeq([i \in 1..(n - 1) |-> << "transition", i >>],
                     LAMBDA st : slides[st[2]].interval_to_next > 0)
        \o << << "concat", 0 >> >>
        \o (IF titled THEN << << "embed", 0 >> >> ELSE << >>)
        \o << << "publish", 0 >> >>

\* A run whose move to the final path (line 159) has just succeeded.
InitChap ==
    /\ model \in { [slides |-> s, parameters |-> p] :
                     s \in SeqsUpTo(ChapSlideSamples, MaxChapSlides), p \in ChapParams }
    /\ finalPath = "complete" /\ tempPath = "absent" /\ sidecar = "absent"
    /\ builder = NewBuilder /\ cmd = << >>
    /\ uiState = "PROCESSING" /\ startPending = FALSE /\ finishedPending = FALSE
    /\ pc = "chapters" /\ idx = Max(1, Len(model.slides))
    /\ rpc = "none" /\ outcome = "OK" /\ finishedNormally = TRUE /\ exitOK = TRUE
    /\ carried = "output"
    /\ isCanceled = FALSE /\ activeProcesses = {} /\ running = {}
    /\ procSeq = 0 /\ curProc = 0
    /\ cpc = "idle" /\ procsToKill = {}
    /\ totalSteps = TotalSteps(Len(model.slides))
    /\ InitPinp /\ InitDispatch
    /\ loudnormFilter = "none"
    /\ exc = "none" /\ errAt = "none" /\ result = NoResult
    /\ emits = 0 /\ runs = 1
    /\ steps = StepsOfSuccessfulRun(model.slides)
    /\ flagAtStart = [k \in 1..Len(steps) |-> FALSE]
    /\ segOK = 1..Len(model.slides)
    /\ transOK = { i \in 1..(Len(model.slides) - 1) :
                     model.slides[i].interval_to_next > 0 }
    /\ currentStep = Cardinality(segOK) + Cardinality(transOK) + 1
    /\ progress = [k \in 1..currentStep |-> Percent(k, totalSteps)]
    /\ concatList = FinalVideoList(Len(model.slides), transOK, 1)
    /\ audioDuration = "none" /\ warnings = {}
    /\ completed = {"concat"} \cup (IF AnyChapterTitle THEN {"embed"} ELSE {"move"})
    /\ cancelDuringRun = FALSE /\ cancelSaw = {}
    /\ finalAtStart = "none"
    /\ vpc = "idle" /\ validatorCanceled = FALSE /\ validationSignal = "none"
    /\ validations = 0

NextChap == ExportChapters \/ EmitVideoFinished \/ OnProcessingFinished

SpecChap == InitChap /\ [][NextChap]_vars

\* C10: the YouTube chapter file is written only when the first chapter starts at 0,
\* there are at least three chapters and every chapter lasts at least 10 seconds.
C10_SidecarOnlyForValidChapters ==
    sidecar = "written" =>
        LET chapters == Chapters(model.slides)
        IN  /\ Len(chapters) >= 3
            /\ chapters[1] = 0
            /\ \A k \in 1..Len(chapters) : ChapterDuration(model.slides, k) >= 10

\* ------------------------------------------------ zero-interval transitions
\* The condition ProjectValidator reports as a project error: a slide other than the
\* last with interval_to_next <= 0 and a transition other than "None".
HasZeroIntervalTransition(slides) ==
    \E i \in 1..(Len(slides) - 1) :
        slides[i].interval_to_next <= 0 /\ slides[i].transition_to_next # "None"

\* C11: a run on a project in which a slide other than the last has a transition
\* with a zero interval does not end in success.
C11_ZeroIntervalTransitionIsError ==
    HasZeroIntervalTransition(model.slides) => result.kind # "success"

MaxRepeatedRuns == 2

\* One-slide projects encoded in a single pass and not normalized.
RepeatedRunProjects ==
    { [slides |-> << s >>, parameters |-> p] :
        s \in SlideSamples,
        p \in { q \in ParamSamples : q.encoding_pass = ONE_PASS /\ q.normalize = "off" } }

InitRepeated ==
    /\ model \in RepeatedRunProjects
    /\ finalPath \in {"absent", "old"}
    /\ InitEngine

\* The steps a one-slide project in a single pass without normalization can take.
NextRepeated ==
    \/ RunCreateVideoUpTo(MaxRepeatedRuns) \/ CancelVideoCreation \/ OnProcessingFinished
    \/ Cancel \/ RunSubprocess \/ ProcessDestroyed
    \/ StartVideoCreation \/ ResetFlag \/ RunLogicSetup \/ RenderOpen \/ RenderPage
    \/ SlideLoop \/ GenerateSingleSlideVideo \/ ProbeReturn \/ EncodeReturn
    \/ TransitionLoop \/ ConcatReturn \/ FinalizeOutput \/ EmbedReturn \/ FinalizeDone
    \/ PublishCheck \/ PublishUnlink \/ PublishMove \/ ExportChapters \/ ExceptHandler
    \/ ReturnNone \/ EmitVideoFinished

SpecRepeated == InitRepeated /\ [][NextRepeated]_vars

\* C13: the engine never has more than one child process running at the same time.
C13_AtMostOneChild ==
    Cardinality(running) <= 1

\* ------------------------------------- FFmpegCommandBuilder: the operations
MaxInputs == 2
MaxGlobalOptions == 3

BuilderPaths == {"a.png", "b.mp4"}
BuilderInputOptions == { << >>, << "-loop", "1" >>, << "-t", "5" >> }
BuilderOutputOptions == { << >>, << "-c:v", "libx264" >> }
BuilderFilters == {"", "[0:v][1:v]overlay"}

\* What the engine's state is while only the builder is exercised.
pipelineVars == << model, finalAtStart, concatList, audioDuration, warnings, uiState, startPending, finishedPending, pc, idx, rpc, outcome,
                 finishedNormally, exitOK, carried, isCanceled, activeProcesses,
                 running, procSeq, curProc, cpc, procsToKill, finalPath, tempPath,
                 sidecar, currentStep, totalSteps, progress, loudnormFilter, exc, errAt,
                 result,
                 emits, runs, steps, flagAtStart, segOK, transOK, completed,
                   cancelDuringRun, cancelSaw, validationVars >>

engineVars == << pipelineVars, geometryVars, dispatchVars >>

\* add_global_options(*opts)
AddGlobalOptions ==
    /\ Len(builder.global_options) < MaxGlobalOptions
    /\ \E opt \in {"-nostdin", "-v"} :
          builder' = [builder EXCEPT !.global_options = @ \o << opt >>]
    /\ UNCHANGED << cmd, engineVars >>

\* add_input(path, options): options or [] is the list given, else the empty list.
AddInput ==
    /\ Len(builder.inputs) < MaxInputs
    /\ \E path \in BuilderPaths, options \in BuilderInputOptions :
          builder' = [builder EXCEPT
                         !.inputs = Append(@, [path |-> path, options |-> options])]
    /\ UNCHANGED << cmd, engineVars >>

\* set_filter_complex(filter_string)
SetFilterComplex ==
    /\ \E filter_string \in BuilderFilters :
          builder' = [builder EXCEPT !.filter_complex = filter_string]
    /\ UNCHANGED << cmd, engineVars >>

\* set_output(path, options)
SetOutput ==
    /\ \E path \in {"out.mp4", "/dev/null"}, options \in BuilderOutputOptions :
          builder' = [builder EXCEPT !.output_path = path, !.output_options = options]
    /\ UNCHANGED << cmd, engineVars >>

RECURSIVE InputArgumentsPathFirst(_, _)
\* A builder that puts '-i' and the path in front of the input's options.
InputArgumentsPathFirst(inputs, k) ==
    IF k > Len(inputs) THEN << >>
    ELSE << "-i", inputs[k].path >> \o inputs[k].options
         \o InputArgumentsPathFirst(inputs, k + 1)

RECURSIVE InputArguments(_, _)
\* The loop of build() over self.inputs from input k on: the options of each input,
\* then '-i' and its path.
InputArguments(inputs, k) ==
    IF k > Len(inputs) THEN << >>
    ELSE inputs[k].options \o << "-i", inputs[k].path >> \o InputArguments(inputs, k + 1)

\* The list build() returns for a builder whose output path is set.
BuildCommand(b) ==
    << "ffmpeg" >> \o b.global_options
    \o InputArguments(b.inputs, 1)
    \o (IF b.filter_complex # "" THEN << "-filter_complex", b.filter_complex >> ELSE << >>)
    \o b.output_options
    \o << b.output_path >>

\* build(): ValueError without an output path, else the command.
Build ==
    /\ cmd' = IF builder.output_path = "" THEN << "ValueError" >>
              ELSE BuildCommand(builder)
    /\ UNCHANGED << builder, engineVars >>

NextBuilder == AddGlobalOptions \/ AddInput \/ SetFilterComplex \/ SetOutput \/ Build

\* The engine at rest with some project loaded, and a fresh builder.
InitBuilder ==
    /\ model \in { m \in RepeatedRunProjects : m.slides[1].kind = "Silent" }
    /\ finalPath = "absent"
    /\ InitEngine

SpecBuilder == InitBuilder /\ [][NextBuilder]_vars

RECURSIVE InputOffset(_, _)
\* Number of arguments in front of the options of input k.
InputOffset(b, k) ==
    IF k <= 1 THEN 1 + Len(b.global_options)
    ELSE InputOffset(b, k - 1) + Len(b.inputs[k - 1].options) + 2

\* The order of the arguments of c, for the builder b it was built from.
ArgumentsInOrder(b, c) ==
    LET n == Len(b.inputs)
        afterInputs == InputOffset(b, n + 1)
        nf == IF b.filter_complex # "" THEN 2 ELSE 0
    IN  /\ c[1] = "ffmpeg"
        /\ SubSeq(c, 2, 1 + Len(b.global_options)) = b.global_options
        /\ c[2] = "-y" /\ c[3] = "-hide_banner"
        /\ \A k \in 1..n :
              LET o == InputOffset(b, k)
                  m == Len(b.inputs[k].options)
              IN  /\ SubSeq(c, o + 1, o + m) = b.inputs[k].options
                  /\ c[o + m + 1] = "-i"
                  /\ c[o + m + 2] = b.inputs[k].path
        /\ (nf = 2 => c[afterInputs + 1] = "-filter_complex"
                      /\ c[afterInputs + 2] = b.filter_complex)
        /\ SubSeq(c, afterInputs + nf + 1, afterInputs + nf + Len(b.output_options))
              = b.output_options
        /\ Len(c) = afterInputs + nf + Len(b.output_options) + 1
        /\ c[Len(c)] = b.output_path

\* C14: whenever build() returns a command for a builder with an output path, the
\* arguments are: executable, global flags, per input its flags then '-i' and its
\* path, the filter graph if set, the output flags, the output path last.
C14_BuildOrder ==
    [][(cmd' # cmd /\ builder.output_path # "") => ArgumentsInOrder(builder, cmd')]_vars

\* A command was built from two inputs with flags, a filter graph and output flags.
C14_Witness ==
    /\ Len(builder.inputs) = MaxInputs
    /\ builder.inputs[1].options # << >> /\ builder.inputs[2].options # << >>
    /\ builder.filter_complex # "" /\ builder.output_options # << >>
    /\ Len(builder.global_options) > 2
    /\ cmd # << >> /\ cmd[Len(cmd)] = builder.output_path
    /\ Len(cmd) = 1 + Len(builder.global_options) + 8 + 2 + 2 + 1

\* ============================================================ SpecGeometry
\* The overlay geometry of a video slide, computed twice in the source: by
\* calculate_pinp_geometry (preview and validation report) and by
\* _overlay_video_on_image (the filter graph of the encode).  Python floats
\* are modelled as exact rationals n / d.

\* Python's round() of n / d (d > 0): to the nearest integer, ties to even.
Round(n, d) ==
    LET q == n \div d
        r == n % d
    IN  IF 2 * r < d THEN q
        ELSE IF 2 * r > d THEN q + 1
        ELSE IF q % 2 = 0 THEN q ELSE q + 1

\* round(v) alone, without the halving and doubling around it.
RoundToInteger(n, d) == Round(n, d)

\* round(v / 2) * 2 for v = n / d.
RoundToEven(n, d) == Round(n, 2 * d) * 2

\* The display-aspect-ratio strings tried ("" stands for a missing key).
DarStrings == {"", "16:9", "4:3", "0:1", "1:0", "N/A", "N/A:1"}

\* dar_str and ':' in dar_str
HasColon(dar) == dar \in {"16:9", "4:3", "0:1", "1:0", "N/A:1"}

\* num, den = map(int, dar_str.split(':')); << >> when int() raises ValueError.
ParseDar(dar) ==
    CASE dar = "16:9" -> << 16, 9 >>
      [] dar = "4:3"  -> << 4, 3 >>
      [] dar = "0:1"  -> << 0, 1 >>
      [] dar = "1:0"  -> << 1, 0 >>
      [] OTHER        -> << >>

\* The string parses as num:den with den > 0.
DarOverrides(dar) ==
    HasColon(dar) /\ ParseDar(dar) # << >> /\ ParseDar(dar)[2] > 0

\* rotation in ["90", "270", "-90"], with 180 taken for a quarter turn too.
RotatedOrFlipped(rotation) == rotation \in {"90", "270", "-90", "180"}

\* rotation in ["90", "270", "-90"]
Rotated(rotation) == rotation \in {"90", "270", "-90"}

\* video_width, video_height after the swap.
VideoSize(p) ==
    IF Rotated(p.rotate) THEN << p.height, p.width >> ELSE << p.width, p.height >>

\* aspect_ratio of calculate_pinp_geometry as << numerator, denominator >>
\* (called only when the swapped height is positive).
PreviewAspectRatio(p) ==
    IF DarOverrides(p.dar) THEN ParseDar(p.dar) ELSE VideoSize(p)

\* aspect_ratio of _overlay_video_on_image.
EngineAspectRatio(p) ==
    IF VideoSize(p)[2] > 0
    THEN IF p.dar # "0:1" /\ DarOverrides(p.dar) THEN ParseDar(p.dar) ELSE VideoSize(p)
    ELSE << 16, 9 >>

\* pos_x, pos_y of calculate_pinp_geometry, already through round().
PreviewPosition(key, ow, oh, fw, fh) ==
    CASE key = "Center"       -> << Round(ow - fw, 2), Round(oh - fh, 2) >>
      [] key = "Upper Left"   -> << 0, 0 >>
      [] key = "Upper Right"  -> << ow - fw, 0 >>
      [] key = "Bottom Left"  -> << 0, oh - fh >>
      [] key = "Bottom Right" -> << ow - fw, oh - fh >>
      [] OTHER                -> << 0, 0 >>

calculate_pinp_geometry(p) ==
    IF ~p.is_video \/ VideoSize(p)[2] <= 0 THEN NoGeometry
    ELSE LET ar == PreviewAspectRatio(p)
             fw == RoundToEven(p.output_height * p.video_scale * ar[1], 100 * ar[2])
             fh == RoundToEven(p.output_height * p.video_scale, 100)
             pos == PreviewPosition(p.video_position, p.output_width,
                                    p.output_height, fw, fh)
         IN  [valid |-> TRUE, x |-> pos[1], y |-> pos[2], width |-> fw, height |-> fh]

VIDEO_POSITION_MAP(key) ==
    CASE key = "Center"       -> << "(main_w-overlay_w)/2", "(main_h-overlay_h)/2" >>
      [] key = "Upper Left"   -> << "0", "0" >>
      [] key = "Upper Right"  -> << "main_w-overlay_w", "0" >>
      [] key = "Bottom Left"  -> << "0", "main_h-overlay_h" >>
      [] key = "Bottom Right" -> << "main_w-overlay_w", "main_h-overlay_h" >>

VideoPositions == {"Center", "Upper Left", "Upper Right", "Bottom Left", "Bottom Right"}

\* config.EFFECT_GROUPS
EFFECT_GROUPS ==
    [Shape |-> << "Circle", "Chroma", "Vignette" >>,
     Color |-> << "Grayscale", "Sepia", "Negative" >>,
     Processing |-> << "HFlip", "VFlip", "Blur", "Pixelate" >>]

\* The filter each processing tag appends ("pixelate" is the scale-down, scale-up
\* pair of line 804).
ProcessingFilter(tag) ==
    CASE tag = "HFlip" -> "hflip" [] tag = "VFlip" -> "vflip"
      [] tag = "Blur" -> "boxblur=5" [] tag = "Pixelate" -> "pixelate"

\* processing_filters: four independent tests, in this order.
ProcessingFilters(video_effects) ==
    LET Selected(tag) == tag \in video_effects
    IN  [i \in 1..Len(SelectSeq(EFFECT_GROUPS.Processing, Selected)) |->
            ProcessingFilter(SelectSeq(EFFECT_GROUPS.Processing, Selected)[i])]

\* color_filters with every test an independent if.
ColorFiltersEveryTag(video_effects) ==
    (IF "Grayscale" \in video_effects THEN << "format=gray" >> ELSE << >>)
    \o (IF "Sepia" \in video_effects THEN << "colorchannelmixer" >> ELSE << >>)
    \o (IF "Negative" \in video_effects THEN << "negate" >> ELSE << >>)

\* color_filters: if / elif / elif.
ColorFilters(video_effects) ==
    IF "Grayscale" \in video_effects THEN << "format=gray" >>
    ELSE IF "Sepia" \in video_effects THEN << "colorchannelmixer" >>
    ELSE IF "Negative" \in video_effects THEN << "negate" >>
    ELSE << >>

\* shape_filters: if / elif / elif; the circle mask ("geq") is appended only when
\* tech_info carries a positive width and height.
ShapeFilters(video_effects, video_w, video_h) ==
    IF "Circle" \in video_effects
    THEN IF video_w > 0 /\ video_h > 0 THEN << "geq" >> ELSE << >>
    ELSE IF "Chroma" \in video_effects THEN << "chromakey" >>
    ELSE IF "Vignette" \in video_effects THEN << "vignette=eval=frame" >>
    ELSE << >>

\* The effect, scale and overlay filters _overlay_video_on_image appends.
OverlayFilters(p) ==
    LET ar == EngineAspectRatio(p)
        pos_info == IF p.video_position \in VideoPositions
                    THEN VIDEO_POSITION_MAP(p.video_position)
                    ELSE VIDEO_POSITION_MAP("Center")
    IN  [built |-> TRUE,
         width |-> RoundToEven(p.output_height * p.video_scale * ar[1], 100 * ar[2]),
         height |-> RoundToEven(p.output_height * p.video_scale, 100),
         x |-> pos_info[1], y |-> pos_info[2],
         processing_filters |-> ProcessingFilters(p.video_effects),
         color_filters |-> ColorFilters(p.video_effects),
         shape_filters |-> ShapeFilters(p.video_effects, p.width, p.height)]

\* The slides and output resolutions tried: source sizes (one without a height,
\* one without tech_info), rotations, scales within PINP_SCALE_RANGE, anchors
\* ("" for None) and output sizes, one of them odd.
PinpInputs ==
    { [is_video |-> v, width |-> src[1], height |-> src[2], dar |-> d, rotate |-> r,
       video_scale |-> sc, video_position |-> pos, video_effects |-> {},
       output_width |-> out[1], output_height |-> out[2]] :
        v \in BOOLEAN,
        src \in { << 1920, 1080 >>, << 640, 480 >>, << 720, 0 >>, << 0, 0 >> },
        d \in DarStrings,
        r \in {"", "0", "90", "180", "270", "-90"},
        sc \in {5, 33, 50, 100},
        pos \in VideoPositions \cup {""},
        out \in { << 1920, 1080 >>, << 1280, 720 >>, << 640, 480 >>, << 641, 361 >> } }

\* The preview / the validation report asks for the slide's geometry.
CalculatePinpGeometry ==
    /\ geometry' = calculate_pinp_geometry(pinp)
    /\ UNCHANGED << pipelineVars, builder, cmd, dispatchVars, pinp, overlayFilter >>

\* VideoSlideProcessor.process: the engine builds the filter graph of the slide.
OverlayVideoOnImage ==
    /\ pinp.is_video
    /\ overlayFilter' = OverlayFilters(pinp)
    /\ UNCHANGED << pipelineVars, builder, cmd, dispatchVars, pinp, geometry >>

NextGeometry == CalculatePinpGeometry \/ OverlayVideoOnImage

InitGeometry ==
    /\ model \in { m \in RepeatedRunProjects : m.slides[1].kind = "Video" }
    /\ finalPath = "absent"
    /\ pinp \in PinpInputs /\ geometry = NoGeometry /\ overlayFilter = NoOverlay
    /\ InitDispatch
    /\ InitPipeline

SpecGeometry == InitGeometry /\ [][NextGeometry]_vars

\* The tags of one group.
GroupTags(group) == { EFFECT_GROUPS[group][i] : i \in 1..Len(EFFECT_GROUPS[group]) }

\* The stored tags tried: those of the three groups and one no group knows.
EffectTags == GroupTags("Shape") \cup GroupTags("Color") \cup GroupTags("Processing")
              \cup {"Glow"}

\* Video slides with every combination of stored tags, valid or not, over a
\* source with and without dimensions in tech_info.
EffectInputs ==
    { [is_video |-> TRUE, width |-> src[1], height |-> src[2], dar |-> "", rotate |-> "",
       video_scale |-> 50, video_position |-> "Center", video_effects |-> e,
       output_width |-> 1920, output_height |-> 1080] :
        src \in { << 1920, 1080 >>, << 720, 0 >>, << 0, 0 >> },
        e \in SUBSET EffectTags }

InitEffects ==
    /\ model \in { m \in RepeatedRunProjects : m.slides[1].kind = "Video" }
    /\ finalPath = "absent"
    /\ pinp \in EffectInputs /\ geometry = NoGeometry /\ overlayFilter = NoOverlay
    /\ InitDispatch
    /\ InitPipeline

SpecEffects == InitEffects /\ [][NextGeometry]_vars

\* C15: the overlay width and height returned by calculate_pinp_geometry, and the
\* scale dimensions put into the engine's filter graph, are even integers.
C15_OverlayDimensionsEven ==
    /\ geometry.valid => geometry.width % 2 = 0 /\ geometry.height % 2 = 0
    /\ overlayFilter.built => overlayFilter.width % 2 = 0 /\ overlayFilter.height % 2 = 0

\* Both computations ran for a slide whose unrounded overlay height is not an
\* even integer.
C15_Witness ==
    /\ geometry.valid /\ overlayFilter.built
    /\ (pinp.output_height * pinp.video_scale) % 200 # 0
    /\ geometry.width > 0 /\ overlayFilter.width > 0

\* v is an even integer nearest to n / d (d > 0).
IsEvenRound(v, n, d) ==
    /\ v % 2 = 0
    /\ v * d - n <= d /\ n - v * d <= d

\* The aspect ratio the overlay is to have: num / den of a display aspect ratio
\* that reads num:den with den > 0, else source width / height, with the two
\* swapped exactly for a quarter turn.
StatedAspectRatio(p) ==
    LET quarter == p.rotate \in {"90", "270", "-90"}
        w == IF quarter THEN p.height ELSE p.width
        h == IF quarter THEN p.width ELSE p.height
    IN  CASE p.dar = "16:9" -> << 16, 9 >>
          [] p.dar = "4:3"  -> << 4, 3 >>
          [] p.dar = "0:1"  -> << 0, 1 >>
          [] OTHER          -> << w, h >>

\* The 1920x1080 source turned by 90 degrees, at 50 percent in a 1920x1080 frame.
TurnedFullHdExample ==
    /\ pinp.width = 1920 /\ pinp.height = 1080 /\ pinp.rotate = "90" /\ pinp.dar = ""
    /\ pinp.video_scale = 50 /\ pinp.output_width = 1920 /\ pinp.output_height = 1080

\* C16: the overlay height is the even rounding of output_h * scale / 100 and the
\* width the even rounding of that height times the aspect ratio (source width /
\* height, swapped for rotation 90, 270, -90 only, overridden by a display aspect
\* ratio num:den with den > 0); the turned 1920x1080 example gives 304x540.
C16_OverlaySize ==
    geometry.valid =>
        LET ar == StatedAspectRatio(pinp)
        IN  /\ IsEvenRound(geometry.height, pinp.output_height * pinp.video_scale, 100)
            /\ IsEvenRound(geometry.width,
                           pinp.output_height * pinp.video_scale * ar[1], 100 * ar[2])
            /\ TurnedFullHdExample => geometry.width = 304 /\ geometry.height = 540

\* The geometry of the turned 1920x1080 example has been computed.
C16_Witness == geometry.valid /\ TurnedFullHdExample

\* The anchor formula of a position, floor-rounded.
AnchorFloor(key, W, H, w, h) ==
    CASE key = "Center"       -> << (W - w) \div 2, (H - h) \div 2 >>
      [] key = "Upper Left"   -> << 0, 0 >>
      [] key = "Upper Right"  -> << W - w, 0 >>
      [] key = "Bottom Left"  -> << 0, H - h >>
      [] key = "Bottom Right" -> << W - w, H - h >>

\* C17: for every anchor and output size W x H, odd or even, the overlay origin is
\* the floor-rounded result of the anchor formula, and an overlay no larger than
\* the output lies inside it: 0 <= x, 0 <= y, x + w <= W, y + h <= H.
C17_OriginIsFloorOfAnchor ==
    (geometry.valid /\ pinp.video_position \in VideoPositions) =>
        LET W == pinp.output_width
            H == pinp.output_height
            w == geometry.width
            h == geometry.height
        IN  /\ << geometry.x, geometry.y >> = AnchorFloor(pinp.video_position, W, H, w, h)
            /\ (w <= W /\ h <= H) =>
                  /\ 0 <= geometry.x /\ 0 <= geometry.y
                  /\ geometry.x + w <= W /\ geometry.y + h <= H

\* ============================================================ SpecProgress
\* The engine run on projects of every slide count from 0 to MaxSlides:
\* run_video_creation itself does not look at the number of slides.
ProgressProjects ==
    { [slides |-> s, parameters |-> p] :
        s \in {<< >>} \cup SeqsUpTo(SlideSamples, MaxSlides), p \in ParamSamples }

InitProgress ==
    /\ model \in ProgressProjects
    /\ finalPath \in {"absent", "old"}
    /\ InitEngine

SpecProgress == InitProgress /\ [][Next]_vars

\* C18: every value progress_updated emits during a run is completed_steps /
\* total_steps (in whole percent) with total_steps = slides + max(0, slides - 1)
\* + 1, lies between 0 and 100, and the values of a run never decrease.
C18_ProgressFraction ==
    LET n == Len(model.slides)
        total == n + (IF n - 1 > 0 THEN n - 1 ELSE 0) + 1
    IN  /\ \A k \in 1..Len(progress) :
              /\ progress[k] * total <= 100 * k /\ 100 * k < (progress[k] + 1) * total
              /\ 0 <= progress[k] /\ progress[k] <= 100
        /\ \A k \in 1..(Len(progress) - 1) : progress[k] <= progress[k + 1]
        /\ Len(progress) = currentStep

\* A run of a two-slide project without an interval clip completed its three steps:
\* 25, 50 and 75 percent were emitted.
C18_Witness ==
    /\ Len(model.slides) = 2 /\ model.slides[1].interval_to_next = 0
    /\ progress = << 25, 50, 75 >> /\ result.kind = "success"

\* ------------------------------------------------- passes of the encodes
\* The same, with is_single_pass_override left out of the test.
PassOptionsWithoutOverride(p, pass_num, is_single_pass_override) ==
    LET codec == ResolveCodecOption(p.codec, p.hardware_encoding)
    IN  IF /\ p.encoding_pass = TWO_PASS
           /\ p.encoding_mode # QUALITY
           /\ ~ContainsVideotoolbox(codec)
        THEN << "-pass", pass_num >>
        ELSE << >>

\* _get_video_encoding_options, lines 1043-1045: what it appends for the pass.
PassOptions(p, pass_num, is_single_pass_override) ==
    LET codec == ResolveCodecOption(p.codec, p.hardware_encoding)
    IN  IF /\ ~is_single_pass_override
           /\ p.encoding_pass = TWO_PASS
           /\ p.encoding_mode # QUALITY
           /\ ~ContainsVideotoolbox(codec)
        THEN << "-pass", pass_num >>
        ELSE << >>

\* config.TRANSITION_MAPPINGS.get(trans) for the names tried; "" stands for None,
\* which is also what a name outside the table gets.
TRANSITION_MAPPINGS(trans) ==
    CASE trans = "Fade" -> "fade"
      [] trans = "Wipe Left" -> "wipeleft"
      [] trans = "Dissolve" -> "dissolve"
      [] OTHER -> ""

\* config.TRANSITION_MAPPINGS.get(trans) is not None.
HasTransitionKeyword(trans) == TRANSITION_MAPPINGS(trans) # ""

\* The pass options of the command run at a call site: _execute_encoding (lines
\* 670, 679, 688) for a slide segment, _create_extended_videos (line 937) for the
\* freeze clips, _create_transition_video (line 885) for the transition clip; the
\* plain interval is joined by a stream copy (line 910).
EncodePassOptions(site, p, trans) ==
    CASE site = "pass1"  -> PassOptions(p, "1", FALSE)
      [] site = "pass2"  -> PassOptions(p, "2", FALSE)
      [] site = "encode" -> PassOptions(p, "1", FALSE)
      [] site \in {"ext_prev", "ext_next"} -> PassOptions(p, "1", TRUE)
      [] site = "join" /\ HasTransitionKeyword(trans) -> PassOptions(p, "1", TRUE)
      [] OTHER -> << >>

SegmentSites == {"pass1", "pass2", "encode"}
ClipSites == {"ext_prev", "ext_next", "join"}

\* The child of the call site pc has been created and its command built.
EncodeRunning(sites) == pc \in sites /\ rpc # "none" /\ idx \in 1..NSlides

\* The pass options of the command of the current call site.
CurrentPassOptions ==
    EncodePassOptions(pc, params, model.slides[idx].transition_to_next)

\* C19: every encode of an intermediate file (slide segment, freeze clip,
\* transition clip) is a single pass without a -pass option, also for a two-pass
\* parameter with VBR or CBR.
C19_IntermediatesSinglePass ==
    EncodeRunning(SegmentSites \cup ClipSites) =>
        CurrentPassOptions = << >> /\ pc # "pass2"

\* C19 as the code has it: every freeze clip and every transition clip is encoded
\* in a single pass without a -pass option, also for a two-pass parameter with VBR
\* or CBR; a slide segment carries -pass and is encoded twice exactly when the
\* parameters make _execute_encoding run two passes.
C19_ClipsSinglePass ==
    /\ EncodeRunning(ClipSites) => CurrentPassOptions = << >>
    /\ EncodeRunning(SegmentSites) =>
          /\ (CurrentPassOptions # << >>) <=> Is2Pass(params)
          /\ pc \in {"pass1", "pass2"} <=> Is2Pass(params)

\* The xfade encode of a transition clip runs in a project set to two passes.
C19_Witness ==
    /\ EncodeRunning({"join"}) /\ rpc = "waitFinished"
    /\ HasTransitionKeyword(model.slides[idx].transition_to_next)
    /\ Is2Pass(params)

\* ============================================================ SpecDispatch
\* SlideProcessorFactory.get_processor and the command each processor builds,
\* reduced to the durations it puts into it.
SILENT_MATERIAL_NAME == "SILENT"
SUPPORTED_AUDIO_FORMATS == {".mp3", ".flac", ".aac", ".wav"}

\* The file names tried ("" stands for None).
SlideFilenames == {"", "SILENT", "talk.mp3", "TALK.WAV", "clip.mp4", "notes.txt"}

\* The end of filename.lower() that endswith() is tested against.
LowerSuffix(filename) ==
    CASE filename = "talk.mp3"  -> ".mp3"
      [] filename = "TALK.WAV"  -> ".wav"
      [] filename = "clip.mp4"  -> ".mp4"
      [] filename = "notes.txt" -> ".txt"
      [] OTHER                  -> ""

get_processor(slide) ==
    IF slide.filename = "" THEN "Unassigned"
    ELSE IF slide.filename = SILENT_MATERIAL_NAME THEN "Silent"
    ELSE IF LowerSuffix(slide.filename) \in SUPPORTED_AUDIO_FORMATS THEN "Audio"
    ELSE IF slide.is_video THEN "Video"
    ELSE "ValueError"

\* Python's `duration or 1`.
DurationOr1(duration) == IF duration = 0 THEN 1 ELSE duration

\* _process_slide: -t of the silent bed (line 731) and -t of the output (lines
\* 729, 733); audio_duration is what _get_media_duration returned.
ProcessSlide(has_audio_path, duration, audio_duration) ==
    IF has_audio_path
    THEN [built |-> TRUE, bed |-> -1, limit |-> audio_duration, loop |-> -1]
    ELSE [built |-> TRUE, bed |-> DurationOr1(duration),
          limit |-> DurationOr1(duration), loop |-> -1]

\* process() of the four processors; _overlay_video_on_image loops the image for
\* slide.duration (line 845) and sets no -t on the output.
ProcessorCommand(kind, slide) ==
    CASE kind = "Unassigned" -> ProcessSlide(FALSE, 1, 0)
      [] kind = "Silent"     -> ProcessSlide(FALSE, slide.duration, 0)
      [] kind = "Audio"      -> ProcessSlide(TRUE, 0, slide.probed)
      [] kind = "Video"      -> [built |-> TRUE, bed |-> -1, limit |-> -1,
                                 loop |-> slide.duration]

SlideInputs ==
    [filename : SlideFilenames, is_video : BOOLEAN, duration : {0, 1, 5, 12},
     probed : {0, 7}]

\* _generate_single_slide_video, line 343: the factory picks the processor.
GetProcessor ==
    /\ processor = "none"
    /\ processor' = get_processor(slideIn)
    /\ UNCHANGED << pipelineVars, builder, cmd, geometryVars, slideIn, segment >>

\* _generate_single_slide_video, line 344: processor.process().
Process ==
    /\ processor \in SlideKinds
    /\ ~segment.built
    /\ segment' = ProcessorCommand(processor, slideIn)
    /\ UNCHANGED << pipelineVars, builder, cmd, geometryVars, slideIn, processor >>

NextDispatch == GetProcessor \/ Process

InitDispatching ==
    /\ model \in { m \in RepeatedRunProjects : m.slides[1].kind = "Silent" }
    /\ finalPath = "absent"
    /\ slideIn \in SlideInputs /\ processor = "none" /\ segment = NoSegment
    /\ InitPinp
    /\ InitPipeline

SpecDispatch == InitDispatching /\ [][NextDispatch]_vars

\* The kind a slide is to be dispatched to.
StatedKind(slide) ==
    CASE slide.filename = "" -> "Unassigned"
      [] slide.filename = "SILENT" -> "Silent"
      [] slide.filename \in {"talk.mp3", "TALK.WAV"} -> "Audio"
      [] slide.is_video -> "Video"
      [] OTHER -> "ValueError"

\* C20: a slide goes to exactly one of the four kinds, or is rejected, and its
\* command limits the segment as stated for the kind: Unassigned a 1-second silent
\* bed, Silent a silent bed of exactly slide.duration seconds (0 included), Audio
\* the probed audio duration, Video the image looped for slide.duration.
C20_DispatchAndDuration ==
    /\ processor # "none" => processor = StatedKind(slideIn)
    /\ segment.built =>
          CASE processor = "Unassigned" -> segment.bed = 1 /\ segment.limit = 1
            [] processor = "Silent" -> /\ segment.bed = slideIn.duration
                                       /\ segment.limit = slideIn.duration
            [] processor = "Audio" -> segment.limit = slideIn.probed
            [] processor = "Video" -> segment.loop = slideIn.duration
            [] OTHER -> FALSE

\* C30: the width and height _overlay_video_on_image puts into the filter graph
\* equal those calculate_pinp_geometry returns for the same slide and output, and
\* the engine composites no overlay for a slide the resolver returns None for.
C30_EngineAgreesWithPreview ==
    /\ (geometry.valid /\ overlayFilter.built) =>
          /\ overlayFilter.width = geometry.width
          /\ overlayFilter.height = geometry.height
    /\ overlayFilter.built => calculate_pinp_geometry(pinp).valid

\* C29: a run that ends in success has emitted 100 percent as its last progress
\* value: completed steps equal total steps, whatever the intervals are.
C29_SuccessEndsAtFullProgress ==
    result.kind = "success" =>
        /\ progress # << >> /\ progress[Len(progress)] = 100
        /\ currentStep = totalSteps

ReturnsFrom(site) == pc = site /\ rpc = "returned" /\ (pc' # pc \/ rpc' # rpc)

\* C24: when the duration probe of an audio slide fails for a reason other than a
\* cancel (it cannot start, times out, exits nonzero, or its output does not
\* parse), the lookup yields 0.0, a log line is written, and the run goes on with
\* the encode of that slide instead of failing.
C24_ProbeFailureDegrades ==
    [][(ReturnsFrom("probe") /\ outcome # "Canceled") =>
          /\ pc' = FirstEncodeSite /\ rpc' = "gate" /\ exc' = "none"
          /\ audioDuration' \in {"probed", "0.0"}
          /\ outcome # "OK" =>
                audioDuration' = "0.0" /\ << "probe", outcome >> \in warnings'
          /\ (outcome = "OK" /\ audioDuration' = "0.0") =>
                << "probe", "ValueError" >> \in warnings']_vars

\* Probes have failed by not starting, by timing out, by a nonzero exit or by an
\* unparsable output, and the run went on to the encode with 0.0.
C24_Witness ==
    /\ pc \in {"pass1", "encode"} /\ rpc = "waitFinished" /\ audioDuration = "0.0"
    /\ \E r \in {"ProcessStartError", "Timeout", "NonZeroExit", "ValueError"} :
          << "probe", r >> \in warnings

\* C25: with two-pass normalization selected, a failed analysis (a non-cancel
\* error, or measurement data that is missing or unparsable) does not fail the run:
\* the failure reason is written to the log and the normalization is then applied
\* once, in its one-pass form.
C25_AnalysisFailureFallsBack ==
    [][(ReturnsFrom("analyze") /\ outcome # "Canceled"
            /\ (outcome # "OK" \/ loudnormFilter' # "loudnorm=measured")) =>
          /\ pc' = "norm" /\ rpc' = "gate" /\ exc' = "none"
          /\ loudnormFilter' = "loudnorm"
          /\ "normalize" \notin completed
          /\ << "analyze", IF outcome = "OK" THEN "ValueError" ELSE outcome >> \in warnings'
      ]_vars

\* The one-pass normalization runs after a failed analysis.
C25_Witness ==
    /\ pc = "norm" /\ rpc = "waitFinished" /\ loudnormFilter = "loudnorm"
    /\ params.normalize = "2-Pass (Recommended)"
    /\ \E r \in {"ProcessStartError", "Timeout", "NonZeroExit", "ValueError"} :
          << "analyze", r >> \in warnings


\* ------------------------------------------------ the file at the final path
\* A run that started with a file at the final path and has returned a failure,
\* the cancellation result or nothing.
UnsuccessfulOverExisting ==
    finalAtStart = "old" /\ result.kind \in {"failure", "None"}

\* C28: when a file exists at the final path as a run starts, a run that ends in
\* failure or cancellation, a failed final move included, leaves that file in
\* place and unchanged; only a successful run replaces it.
C28_ExistingFileKept ==
    /\ UnsuccessfulOverExisting => finalPath = "old"
    /\ (finalAtStart = "old" /\ finalPath = "complete") => result.kind \in {"none", "success"}

\* ------------------------------------------------- a cancel after the start
\* The Cancel button is enabled only in PROCESSING, that is after run_create_video
\* queued the start; cancel() has set the flag (line 43) while the run of that
\* start has neither returned nor put its output at the final path.
CancelHandledBeforePublish ==
    /\ uiState = "CANCELLING" /\ cpc # "requested"
    /\ \/ startPending
       \/ pc # "idle" /\ result.kind = "none" /\ finalPath # "complete"

CanceledByUser == [kind |-> "failure", message |-> "Canceled by user."]

\* C27: a cancel issued after the start was requested and handled before the run
\* publishes is never lost, whatever the order of the queued start and the cancel:
\* from then on the flag is not cleared (not by the reset at the beginning of the
\* run either), nothing is put at the final path, and the run returns the
\* "Canceled by user." result.
C27_CancelAfterStartNeverLost ==
    [][CancelHandledBeforePublish =>
          /\ isCanceled'
          /\ finalPath' # "complete"
          /\ result'.kind # "none" => result' = CanceledByUser]_vars

\* ------------------------------------------------- the effect filters
\* The tags of a group that are stored on the slide, in the group's order.
Present(group) ==
    LET Stored(tag) == tag \in pinp.video_effects
    IN  SelectSeq(EFFECT_GROUPS[group], Stored)

\* The filter that stands for a color or shape tag.
ExclusiveFilter(tag) ==
    CASE tag = "Grayscale" -> "format=gray" [] tag = "Sepia" -> "colorchannelmixer"
      [] tag = "Negative" -> "negate" [] tag = "Circle" -> "geq"
      [] tag = "Chroma" -> "chromakey" [] tag = "Vignette" -> "vignette=eval=frame"

\* At most one filter, and then the one of the first stored tag of the group.
OnlyTheFirst(filters, group) ==
    \/ filters = << >>
    \/ Present(group) # << >> /\ filters = << ExclusiveFilter(Present(group)[1]) >>

\* C23: for every list of stored effect tags, invalid combinations included, the
\* filter chain applies at most one color effect, the first present of Grayscale,
\* Sepia, Negative, and at most one shape effect, the first present of Circle,
\* Chroma, Vignette, and applies every selected processing effect. A color tag
\* that is present always yields its filter; a shape tag does too, except the
\* circle mask over a source without a positive width and height.
C23_ExclusiveGroupsFirstOnly ==
    overlayFilter.built =>
        /\ OnlyTheFirst(overlayFilter.color_filters, "Color")
        /\ (Present("Color") # << >> => overlayFilter.color_filters # << >>)
        /\ OnlyTheFirst(overlayFilter.shape_filters, "Shape")
        /\ (Present("Shape") # << >> /\ overlayFilter.shape_filters = << >>)
              => (Present("Shape")[1] = "Circle" /\ (pinp.width <= 0 \/ pinp.height <= 0))
        /\ Len(overlayFilter.processing_filters) = Len(Present("Processing"))
        /\ \A i \in 1..Len(Present("Processing")) :
              overlayFilter.processing_filters[i] = ProcessingFilter(Present("Processing")[i])

\* The chain of a slide that stores every tag of every group.
C23_Witness ==
    /\ overlayFilter.built
    /\ pinp.video_effects = EffectTags
    /\ overlayFilter.color_filters = << "format=gray" >>
    /\ overlayFilter.shape_filters = << "geq" >>
    /\ Len(overlayFilter.processing_filters) = 4

\* ------------------------------------------------- the interval clip
\* Durations are kept as fractions << numerator, denominator >>.
\* _create_simple_interval_video passing the whole interval on.
WholeInterval(interval_duration) == << interval_duration, 1 >>

\* half_interval = interval_duration / 2
HalfInterval(interval_duration) == << interval_duration, 2 >>

\* The duration _create_extended_videos is called with: by
\* _create_simple_interval_video (line 901) or by _create_transition_video (881).
ExtendedDuration(duration, trans) ==
    IF HasTransitionKeyword(trans) THEN << duration, 1 >> ELSE HalfInterval(duration)

\* The command of one freeze clip: the looped frame, the silent source limited
\* to the duration, the output limited to the duration and encoded.
ExtendedVideoCommand(duration, trans) ==
    [loop |-> 1, silence_t |-> ExtendedDuration(duration, trans),
     output_t |-> ExtendedDuration(duration, trans), copy |-> FALSE]

\* The command that produces interval_<i>.mp4 from the two freeze clips: the
\* concat demuxer with -codec copy (lines 908-911), or the two inputs through
\* xfade and acrossfade, encoded (lines 883-894).
IntervalVideoCommand(duration, trans) ==
    IF HasTransitionKeyword(trans)
    THEN [inputs |-> << "prev_extended", "next_extended" >>, demuxer |-> "",
          copy |-> FALSE,
          xfade |-> [transition |-> TRANSITION_MAPPINGS(trans), duration |-> duration,
                     offset |-> 0],
          acrossfade |-> [d |-> duration]]
    ELSE [inputs |-> << "concat_interval.txt" >>, demuxer |-> "concat",
          copy |-> TRUE,
          xfade |-> [transition |-> "", duration |-> 0, offset |-> 0],
          acrossfade |-> [d |-> 0]]

\* The slide whose interval clip is being produced.
IntervalSlide == model.slides[idx]

\* The fraction equals n / d.
IsFraction(f, n, d) == f[1] * d = n * f[2]

\* C21: for an adjacent pair with interval I > 0, when the transition is "None"
\* both freeze clips have length I/2 and the interval clip is a stream-copy
\* concatenation of them, without a re-encode; when a named transition is set both
\* freeze clips have the full length I and the clip is one re-encode through xfade
\* and acrossfade with duration I and offset 0.
C21_IntervalClip ==
    LET I == IntervalSlide.interval_to_next
        trans == IntervalSlide.transition_to_next
        freeze == ExtendedVideoCommand(I, trans)
        clip == IntervalVideoCommand(I, trans)
    IN  /\ EncodeRunning({"ext_prev", "ext_next"}) =>
              /\ I > 0
              /\ freeze.silence_t = freeze.output_t
              /\ IF trans = "None" THEN IsFraction(freeze.output_t, I, 2)
                                   ELSE IsFraction(freeze.output_t, I, 1)
        /\ EncodeRunning({"join"}) =>
              /\ I > 0
              /\ IF trans = "None"
                 THEN /\ clip.copy /\ clip.demuxer = "concat"
                      /\ clip.xfade.transition = ""
                 ELSE /\ ~clip.copy /\ clip.demuxer = ""
                      /\ clip.inputs = << "prev_extended", "next_extended" >>
                      /\ clip.xfade.transition # ""
                      /\ clip.xfade.duration = I /\ clip.xfade.offset = 0
                      /\ clip.acrossfade.d = I

\* The second freeze clip of a pair without a transition is being encoded.
C21_Witness ==
    /\ EncodeRunning({"ext_next"}) /\ rpc = "waitFinished"
    /\ IntervalSlide.transition_to_next = "None"
    /\ ExtendedVideoCommand(IntervalSlide.interval_to_next, "None").output_t = << 2, 2 >>

\* ========================================================= SpecCancelling
\* The validation worker next to the video worker, for what becomes of the
\* CANCELLING state. The project is validated (again) and a video is created, in
\* either order; the Cancel button is enabled in VALIDATING and in PROCESSING.
MaxValidations == 1

\* Everything of the video side but the application state and cancel()'s position.
videoVars ==
    << model, builder, cmd, geometryVars, dispatchVars, finalAtStart, concatList,
       audioDuration, warnings, startPending, finishedPending, pc, idx, runnerVars,
       isCanceled, activeProcesses, running, procsToKill, cancelDuringRun, cancelSaw,
       fsVars, progressVars, loudnormFilter, exc, errAt, result, emits, runs,
       histVars >>

\* MainWindow.run_validation: VALIDATING, and the transient worker is started
\* unless a transient thread is still running (worker_manager.py line 61).
RunValidation ==
    /\ uiState \in {"READY_TO_VALIDATE", "VALIDATED"}
    /\ validations < MaxValidations
    /\ vpc = "idle"
    /\ uiState' = "VALIDATING"
    /\ vpc' = "probe"
    /\ validations' = validations + 1
    /\ UNCHANGED << videoVars, cpc, validatorCanceled, validationSignal >>

\* MainWindow.cancel_video_creation pressed in VALIDATING: CANCELLING, then
\* cancel_all_tasks calls the transient worker's cancel() directly, which sets the
\* validator's flag, and emits the cancel signal of the video processor.
CancelValidation ==
    /\ uiState = "VALIDATING"
    /\ cpc = "idle"
    /\ uiState' = "CANCELLING"
    /\ validatorCanceled' = (IF vpc # "idle" THEN TRUE ELSE validatorCanceled)
    /\ cpc' = "requested"
    /\ UNCHANGED << videoVars, vpc, validationSignal, validations >>

\* ValidationWorker.run, line 102: probe_and_cache_all_materials returns, or an
\* exception reaches line 111 and validation_error is emitted.
ProbeAndCacheAllMaterials ==
    /\ vpc = "probe"
    /\ \/ vpc' = "start_validation" /\ UNCHANGED validationSignal
       \/ vpc' = "idle" /\ validationSignal' = "error"
    /\ UNCHANGED << videoVars, uiState, cpc, validatorCanceled, validations >>

\* ProjectValidator.start_validation: the flag is reset.
StartValidation ==
    /\ vpc = "start_validation"
    /\ validatorCanceled' = FALSE
    /\ vpc' = "validate"
    /\ UNCHANGED << videoVars, uiState, cpc, validationSignal, validations >>

\* ProjectValidator.validate returns (early when it saw the flag), or raises.
Validate ==
    /\ vpc = "validate"
    /\ \/ vpc' = "check" /\ UNCHANGED validationSignal
       \/ vpc' = "idle" /\ validationSignal' = "error"
    /\ UNCHANGED << videoVars, uiState, cpc, validatorCanceled, validations >>

\* ValidationWorker.run, lines 107-110: validation_canceled when the flag is set,
\* else validation_finished with messages that have errors or not.
EmitValidationResult ==
    /\ vpc = "check"
    /\ IF validatorCanceled
       THEN validationSignal' = "canceled"
       ELSE validationSignal' \in {"finished", "finished_errors"}
    /\ vpc' = "idle"
    /\ UNCHANGED << videoVars, uiState, cpc, validatorCanceled, validations >>

\* MainWindow.on_validation_finished: ignored unless the state is VALIDATING.
OnValidationFinished ==
    /\ validationSignal \in {"finished", "finished_errors"}
    /\ validationSignal' = "none"
    /\ uiState' = IF uiState # "VALIDATING" THEN uiState
                  ELSE IF validationSignal = "finished" THEN "VALIDATED"
                  ELSE "READY_TO_VALIDATE"
    /\ UNCHANGED << videoVars, cpc, vpc, validatorCanceled, validations >>

\* MainWindow.on_validation_error
OnValidationError ==
    /\ validationSignal = "error"
    /\ validationSignal' = "none"
    /\ uiState' = "READY_TO_VALIDATE"
    /\ UNCHANGED << videoVars, cpc, vpc, validatorCanceled, validations >>

\* MainWindow.on_validation_canceled
OnValidationCanceled ==
    /\ validationSignal = "canceled"
    /\ validationSignal' = "none"
    /\ uiState' = "READY_TO_VALIDATE"
    /\ UNCHANGED << videoVars, cpc, vpc, validatorCanceled, validations >>

\* What the user does, the main thread's event loop, and the two worker threads.
User == RunValidation \/ CancelValidation \/ RunCreateVideo \/ CancelVideoCreation

EventLoop ==
    \/ OnProcessingFinished \/ OnValidationFinished \/ OnValidationError
    \/ OnValidationCanceled

ValidationThread ==
    ProbeAndCacheAllMaterials \/ StartValidation \/ Validate \/ EmitValidationResult

\* The steps of the video thread for a one-slide project in a single pass without
\* normalization.
VideoThread ==
    \/ RunSubprocess
    \/ StartVideoCreation \/ ResetFlag \/ RunLogicSetup \/ RenderOpen \/ RenderPage
    \/ SlideLoop \/ GenerateSingleSlideVideo \/ ProbeReturn \/ EncodeReturn
    \/ TransitionLoop \/ ConcatReturn \/ FinalizeOutput \/ EmbedReturn \/ FinalizeDone
    \/ PublishCheck \/ PublishUnlink \/ PublishMove \/ ExportChapters \/ ExceptHandler
    \/ ReturnNone \/ EmitVideoFinished

NextCancelling ==
    User \/ EventLoop \/ ValidationThread \/ VideoThread \/ Cancel \/ ProcessDestroyed

\* Threads run and queued signals are delivered; the user need not do anything.
FairCancelling ==
    /\ WF_vars(EventLoop) /\ WF_vars(ValidationThread)
    /\ WF_vars(VideoThread) /\ WF_vars(Cancel)

SpecCancelling == InitRepeated /\ [][NextCancelling]_vars /\ FairCancelling

\* C26: whenever the application state becomes CANCELLING, it eventually leaves
\* CANCELLING for READY_TO_VALIDATE or VALIDATED once the worker has finished, for
\* every interleaving of the Cancel button with the worker, also when the
\* validation worker emits validation_finished rather than validation_canceled.
C26_CancellingEnds ==
    (uiState = "CANCELLING") ~> (uiState \in {"READY_TO_VALIDATE", "VALIDATED"})


====
